---- MODULE Spec2Model ----
(***************************************************************************)
(* A model of h5coro (src/h5coro/h5coro.py): the H5Coro coordinator with   *)
(* its byte-range cache (ioRequest), the superblock reader, and the        *)
(* H5Dataset workers that walk the object headers of a file image.         *)
(* Bytes are integers 0..255, byte strings are sequences of bytes, file    *)
(* positions are 0-based as in the source.                                 *)
(***************************************************************************)
EXTENDS Integers, Sequences, FiniteSets, TLC

VARIABLES
    resource,      \* which file image the driver serves
    driverMode,    \* what the driver does with a read that crosses end of file
    cache,         \* H5Coro.cache: cache line key -> bytes
    lock,          \* H5Coro.lock: the thread holding it, or NoThread
    offsetSize,    \* H5Coro.offsetSize
    lengthSize,    \* H5Coro.lengthSize
    baseAddress,   \* H5Coro.baseAddress
    rootAddress,   \* H5Coro.rootAddress (NoValue until readSuperblock returns)
    mpc,           \* position of the constructor (main thread)
    sbVersion,     \* readSuperblock's local superblock_version
    io,            \* per thread: the activation of ioRequest it is in
    lineReads,     \* history: cache line key -> number of driver reads that filled it
    calls,         \* history: number of ioRequest calls issued by outside callers
    prev,          \* per caller: its previous completed ioRequest call
    datasets,      \* the constructor's argument datasets
    h5,            \* per worker: its H5Dataset object and how far readDataset has run
    alone          \* history: per worker, its dataset read alone, as far as the worker is

vars == <<resource, driverMode, cache, lock, offsetSize, lengthSize, baseAddress,
          rootAddress, mpc, sbVersion, io, lineReads, calls, prev, datasets, h5, alone>>

(***************************************************************************)
(* Bounds of the model                                                     *)
(***************************************************************************)
\* integers of 2^24 and more are kept as ValueCap ("beyond every file image")
ValueCap == 16777216
\* ioRequest calls issued by outside callers in one behaviour of SpecIO
MaxCalls == 3

(***************************************************************************)
(* Program constants                                                       *)
(***************************************************************************)
CACHE_LINE_SIZE == 16
NoThread == 0 - 1
NoValue == 0 - 1
MainThread == 0
Callers == {1, 2}
Threads == {MainThread} \cup Callers

Min(a, b) == IF a < b THEN a ELSE b
Max(a, b) == IF a > b THEN a ELSE b

\* n zero bytes
Zeros(n) == [i \in 1..n |-> 0]
\* n bytes 0xFF
Ones(n) == [i \in 1..n |-> 255]

RECURSIVE Pow256(_)
Pow256(k) == IF k = 0 THEN 1 ELSE 256 * Pow256(k - 1)

\* struct.pack('<' + SIZE_2_FORMAT[w], n), used to write the file images
LE(n, w) == [i \in 1..w |-> IF i > 3 THEN 0 ELSE (n \div Pow256(i - 1)) % 256]

\* struct.unpack of a little-endian unsigned integer
RECURSIVE UnpackFrom(_, _)
UnpackFrom(raw, i) ==
    IF i > Len(raw) THEN 0
    ELSE LET hi == UnpackFrom(raw, i + 1)
         IN  IF hi >= ValueCap \div 256 THEN ValueCap ELSE raw[i] + 256 * hi
Unpack(raw) == UnpackFrom(raw, 1)

\* b[a:z] of Python for 0 <= a, 0 <= z
PySlice(b, a, z) ==
    LET hi == Min(z, Len(b))
    IN  IF a >= hi THEN <<>> ELSE SubSeq(b, a + 1, hi)

(***************************************************************************)
(* File images                                                             *)
(***************************************************************************)
H5_SIGNATURE == <<137, 72, 68, 70, 13, 10, 26, 10>>
SIG_OHDR == <<79, 72, 68, 82>>
SIG_TREE == <<84, 82, 69, 69>>
SIG_HEAP == <<72, 69, 65, 80>>
SIG_SNOD == <<83, 78, 79, 68>>

\* version 2 superblock: sizes 8/8, root object header at 48
SuperblockV2(base) ==
    H5_SIGNATURE \o <<2, 8, 8, 0>> \o LE(base, 8) \o Ones(8) \o LE(250, 8)
    \o LE(48, 8) \o Zeros(4)

\* version 0 superblock: sizes 8/8, base address 0, root object header at 96
SuperblockV0 ==
    H5_SIGNATURE \o <<0, 0, 0, 0, 0, 8, 8, 0>> \o LE(4, 2) \o LE(16, 2) \o Zeros(4)
    \o LE(0, 8) \o Ones(8) \o LE(300, 8) \o Ones(8)
    \o LE(0, 8) \o LE(96, 8) \o LE(1, 4) \o Zeros(4) \o LE(184, 8) \o LE(136, 8)

\* a version 1 object header prefix
ObjHdrV1(nmsgs, size) == <<1, 0>> \o LE(nmsgs, 2) \o LE(1, 4) \o LE(size, 8)
\* a version 1 message prefix
MsgV1(type, size) == LE(type, 2) \o LE(size, 2) \o <<0, 0, 0, 0>>
\* a hard link message body, padded to 16 bytes
HardLink(name, addr) == <<1, 0, Len(name)>> \o name \o LE(addr, 8) \o Zeros(5 - Len(name))

\* ImgNew: a new-format file (version 2 superblock and version 2 headers):
\* the root group links "d" to a dataset
ImgNew ==
    SuperblockV2(0)
    \o SIG_OHDR \o <<2, 0, 15>> \o <<6>> \o LE(11, 2) \o <<0>>
       \o <<1, 0, 1, 100>> \o LE(74, 8) \o Zeros(4)
    \o SIG_OHDR \o <<2, 0, 26>>
       \o <<8>> \o LE(18, 2) \o <<0>> \o <<3, 1>> \o LE(111, 8) \o LE(8, 8)
       \o Zeros(4)
    \o <<1, 0, 0, 0, 2, 0, 0, 0>>

\* ImgClassic: a classic file (version 0 superblock, version 1 headers): the
\* root group is a symbol table (local heap at 136, B-tree at 184, symbol
\* table node at 232) naming "d", a dataset whose header is at 280
ImgClassic ==
    SuperblockV0
    \o ObjHdrV1(1, 24) \o MsgV1(17, 16) \o LE(184, 8) \o LE(136, 8)
    \o SIG_HEAP \o <<0, 0, 0, 0>> \o LE(16, 8) \o Ones(8) \o LE(168, 8)
    \o Zeros(8) \o <<100, 0, 0, 0, 0, 0, 0, 0>>
    \o SIG_TREE \o <<0, 0>> \o LE(1, 2) \o Ones(8) \o Ones(8)
       \o LE(0, 8) \o LE(232, 8) \o LE(8, 8)
    \o SIG_SNOD \o <<1, 0>> \o LE(1, 2)
       \o LE(8, 8) \o LE(280, 8) \o LE(0, 4) \o Zeros(4) \o Zeros(16)
    \o ObjHdrV1(1, 32) \o MsgV1(8, 24) \o <<3, 1>> \o LE(328, 8) \o LE(8, 8)
       \o Zeros(6)
    \o <<1, 0, 0, 0, 2, 0, 0, 0>>

\* ImgLinks: version 2 superblock with base address 16, version 1 headers
\* holding link messages. The addresses in the file are relative to the base
\* address; the root address is also where readSuperblock looks for it once
\* the base address is set (36 + 16). The messages are spaced the way
\* readMessagesV1 steps through them, so that the walk reaches every message:
\* the root (48) links a 17 byte name, then "x" to an address past the end
\* of the file, then "d" to the dataset header at 204 (datatype, dataspace,
\* contiguous layout), data at 338
LongName == [i \in 1..(CACHE_LINE_SIZE + 1) |-> 108]
ImgLinks ==
    SuperblockV2(16) \o Zeros(4) \o LE(48, 8) \o Zeros(4)
    \o ObjHdrV1(3, 140)
       \o MsgV1(6, 32) \o <<1, 0, Len(LongName)>> \o LongName \o LE(204, 8) \o Zeros(4)
          \o Zeros(28)
       \o MsgV1(6, 16) \o HardLink(<<120>>, 1000) \o Zeros(12)
       \o MsgV1(6, 16) \o HardLink(<<100>>, 204) \o Zeros(12)
    \o ObjHdrV1(3, 118)
       \o MsgV1(3, 16) \o <<16, 8, 0, 0>> \o LE(4, 4) \o LE(0, 2) \o LE(32, 2)
          \o Zeros(16)
       \o MsgV1(1, 16) \o <<1, 1, 0, 0, 0, 0, 0, 0>> \o LE(4, 8) \o Zeros(8)
       \o MsgV1(8, 24) \o <<3, 1>> \o LE(338, 8) \o LE(16, 8) \o Zeros(24)
    \o LE(1, 4) \o LE(2, 4) \o LE(3, 4) \o LE(4, 4)

\* ImgTrunc: a file cut off inside its superblock
ImgTrunc == SubSeq(SuperblockV2(0), 1, 20)

\* ImgUnknown: version 2 superblock, version 1 headers: the root header
\* holds a modification time message (type 0x12) of 8 bytes and then the
\* link "d" to the dataset header at 104
ImgUnknown ==
    SuperblockV2(0)
    \o ObjHdrV1(2, 40)
       \o MsgV1(18, 8) \o <<1, 0, 0, 0>> \o LE(1000, 4)
       \o MsgV1(6, 16) \o HardLink(<<100>>, 104)
    \o ObjHdrV1(1, 24)
       \o MsgV1(3, 16) \o <<16, 8, 0, 0>> \o LE(4, 4) \o LE(0, 2) \o LE(32, 2) \o Zeros(4)

\* a soft link message body: the link name points to the path target
SoftLink(name, target) ==
    <<1, 8, 1, Len(name)>> \o name \o LE(Len(target), 2) \o target

\* ImgSoft: the root header holds the soft link "d" -> "s" and then a
\* datatype message, 8 bytes further than the size of the link message says,
\* where readMessagesV1 looks for it
ImgSoft ==
    SuperblockV2(0)
    \o ObjHdrV1(2, 60)
       \o MsgV1(6, 8) \o SoftLink(<<100>>, <<115>>) \o Zeros(8)
       \o MsgV1(3, 16) \o <<16, 8, 0, 0>> \o LE(4, 4) \o LE(0, 2) \o LE(32, 2) \o Zeros(4)
       \o Zeros(12)

\* ImgFilter: the root header links "d" to the dataset header at 100, which
\* holds a version 1 filter pipeline message with the one filter FLETCHER32
\* (id 3, no name, no client data) and then a datatype message; the messages
\* are spaced as readMessagesV1 steps over them
ImgFilter ==
    SuperblockV2(0)
    \o ObjHdrV1(1, 36)
       \o MsgV1(6, 16) \o HardLink(<<100>>, 100) \o Zeros(12)
    \o ObjHdrV1(2, 76)
       \o MsgV1(11, 16) \o <<1, 1>> \o Zeros(6) \o LE(3, 2) \o LE(0, 2) \o LE(0, 2) \o LE(0, 2)
          \o Zeros(16)
       \o MsgV1(3, 16) \o <<16, 8, 0, 0>> \o LE(4, 4) \o LE(0, 2) \o LE(32, 2) \o Zeros(4)
          \o Zeros(12)

\* ImgV0: the root header at 48 starts with a zero byte and then has the
\* layout that readObjHdrV0 reads ("OHDR", version 2, flags 0, a chunk of 24
\* bytes): a datatype message of 12 bytes at 56 and a fill value message of 4
\* bytes at 72, then the checksum
ImgV0 ==
    SuperblockV2(0)
    \o <<0>> \o SIG_OHDR \o <<2, 0, 24>>
       \o <<3>> \o LE(12, 2) \o <<0>> \o <<16, 8, 0, 0>> \o LE(4, 4) \o LE(0, 2) \o LE(32, 2)
       \o <<5>> \o LE(4, 2) \o <<0>> \o <<2, 1, 1, 0>>
    \o Zeros(4)

\* ImgHeap: the root header holds a link info message whose fractal heap is
\* at 300, then the link "d" to the dataset header at 150, which holds an
\* attribute info message without a fractal heap (the address is all ones);
\* the messages are spaced as readMessagesV1 steps over them
ImgHeap ==
    SuperblockV2(0)
    \o ObjHdrV1(2, 86)
       \o MsgV1(2, 24) \o <<0, 0>> \o LE(300, 8) \o LE(400, 8) \o Zeros(6)
          \o Zeros(18)
       \o MsgV1(6, 16) \o HardLink(<<100>>, 150) \o Zeros(12)
    \o ObjHdrV1(1, 48)
       \o MsgV1(21, 24) \o <<0, 0>> \o Ones(8) \o Ones(8) \o Zeros(6)
          \o Zeros(18)

\* ImgLast: the root header links "d" to the header at 108 and then holds a
\* NIL message without a body in its last 8 bytes, where readMessagesV1 is
\* after the link message; the header at 108 holds nothing but a NIL
\* message without a body
ImgLast ==
    SuperblockV2(0)
    \o ObjHdrV1(2, 44)
       \o MsgV1(6, 16) \o HardLink(<<100>>, 108) \o Zeros(12)
       \o MsgV1(0, 0)
    \o ObjHdrV1(1, 8)
       \o MsgV1(0, 0)

\* ImgLoop: the classic file with a group B-tree node at 184 that is not a
\* leaf (node level 1) and whose first child is the node itself
ImgLoop ==
    SuperblockV0
    \o ObjHdrV1(1, 24) \o MsgV1(17, 16) \o LE(184, 8) \o LE(136, 8)
    \o SIG_HEAP \o <<0, 0, 0, 0>> \o LE(16, 8) \o Ones(8) \o LE(168, 8)
    \o Zeros(8) \o <<100, 0, 0, 0, 0, 0, 0, 0>>
    \o SIG_TREE \o <<0, 1>> \o LE(1, 2) \o Ones(8) \o Ones(8)
       \o LE(0, 8) \o LE(184, 8) \o LE(8, 8)

\* ImgAfter: the root header links "d" to the header at 136, which holds
\* nothing but a NIL message without a body, and then links "x"; the
\* messages are spaced as readMessagesV1 steps over them
ImgAfter ==
    SuperblockV2(0)
    \o ObjHdrV1(2, 72)
       \o MsgV1(6, 16) \o HardLink(<<100>>, 136) \o Zeros(12)
       \o MsgV1(6, 16) \o HardLink(<<120>>, 1000) \o Zeros(12)
    \o ObjHdrV1(1, 8)
       \o MsgV1(0, 0)

Resources == {"new", "classic", "links", "trunc"}
Image(r) ==
    CASE r = "new" -> ImgNew
      [] r = "classic" -> ImgClassic
      [] r = "links" -> ImgLinks
      [] r = "unknown" -> ImgUnknown
      [] r = "soft" -> ImgSoft
      [] r = "filter" -> ImgFilter
      [] r = "v0" -> ImgV0
      [] r = "heap" -> ImgHeap
      [] r = "last" -> ImgLast
      [] r = "loop" -> ImgLoop
      [] r = "after" -> ImgAfter
      [] OTHER -> ImgTrunc

(***************************************************************************)
(* The driver                                                              *)
(***************************************************************************)
DriverModes == {"short", "error"}

\* driver.read(off, len): the bytes of the resource in [off, off + len). A
\* read that crosses the end of the resource returns the bytes there are
\* (mode "short", as a file or a range request does) or fails with an I/O
\* error (mode "error"); a behaviour has one mode throughout.
DriverRead(off, len) ==
    LET img == Image(resource)
    IN  IF off + len <= Len(img)
        THEN [ok |-> TRUE, bytes |-> PySlice(img, off, off + len)]
        ELSE IF driverMode = "short"
             THEN [ok |-> TRUE, bytes |-> PySlice(img, off, off + len)]
             ELSE [ok |-> FALSE, bytes |-> <<>>]

(***************************************************************************)
(* H5Coro.ioRequest                                                        *)
(***************************************************************************)
\* (pos + self.baseAddress) & CACHE_LINE_MASK
CacheLineOf(abs) == abs - (abs % CACHE_LINE_SIZE)

IoIdle == [pc |-> "idle", pos |-> 0, size |-> 0, line |-> 0, data |-> <<>>, nreads |-> 0]

\* a thread enters ioRequest(pos, size): the test of size against the line size
IoCall(t, pos, size) ==
    [io EXCEPT ![t] = [pc |-> IF size <= CACHE_LINE_SIZE THEN "lock" ELSE "direct",
                       pos |-> pos, size |-> size, line |-> 0,
                       data |-> <<>>, nreads |-> 0]]

\* (mutant) the lock excludes nobody
LockFreeAlways(t) == TRUE

\* `with self.lock`: the lock is taken only when no thread holds it
LockFree(t) == lock = NoThread

\* (mutant) an exception inside the locked block leaves the lock held
LockAfterRaiseHeld(t) == t

\* `with self.lock`: an exception that leaves the block releases the lock
LockAfterRaise(t) == NoThread

\* (mutant) the lookup never finds a line
CachedNever(c, line) == FALSE

\* cache_line in self.cache
Cached(c, line) == line \in DOMAIN c

\* (mutant) every entry ends up holding the bytes just read
CacheInsertAliased(c, line, bytes) == [k \in DOMAIN c \cup {line} |-> bytes]

\* self.cache[line] = bytes
CacheInsert(c, line, bytes) ==
    [k \in DOMAIN c \cup {line} |-> IF k = line THEN bytes ELSE c[k]]

CountRead(line) ==
    [k \in DOMAIN lineReads \cup {line} |->
        IF k = line
        THEN (IF line \in DOMAIN lineReads THEN lineReads[line] ELSE 0) + 1
        ELSE lineReads[k]]

\* start_index of the request in its first cache line
StartIndex(r) == (r.pos + baseAddress) - r.line
\* next_cache_line
NextLine(r) == CacheLineOf(r.line + StartIndex(r) + r.size)
\* the data of a request served by one line
OneLine(c, r) == PySlice(c[r.line], StartIndex(r), StartIndex(r) + r.size)
\* (mutant) the head of the next line is cut at stop_index
TwoLinesLong(c, r) ==
    PySlice(c[r.line], StartIndex(r), CACHE_LINE_SIZE)
    \o PySlice(c[NextLine(r)], 0, StartIndex(r) + r.size)

\* the data of a request served by two lines
TwoLines(c, r) ==
    PySlice(c[r.line], StartIndex(r), CACHE_LINE_SIZE)
    \o PySlice(c[NextLine(r)], 0, StartIndex(r) + r.size - CACHE_LINE_SIZE)

\* the rest of the locked block once the first line is in the cache c: the
\* request is served, or the next line is missing and is read first
ServeFrom(t, c, r) ==
    IF StartIndex(r) + r.size <= CACHE_LINE_SIZE
    THEN /\ io' = [io EXCEPT ![t] = [r EXCEPT !.pc = "ret", !.data = OneLine(c, r)]]
         /\ lock' = NoThread
    ELSE IF Cached(c, NextLine(r))
         THEN /\ io' = [io EXCEPT ![t] = [r EXCEPT !.pc = "ret", !.data = TwoLines(c, r)]]
              /\ lock' = NoThread
         ELSE /\ io' = [io EXCEPT ![t] = [r EXCEPT !.pc = "rd2"]]
              /\ lock' = t

\* the lock is taken and the first line looked up
IoEnter(t) ==
    /\ io[t].pc = "lock"
    /\ LockFree(t)
    /\ LET r == [io[t] EXCEPT !.line = CacheLineOf(io[t].pos + baseAddress)]
       IN  IF Cached(cache, r.line)
           THEN ServeFrom(t, cache, r)
           ELSE /\ io' = [io EXCEPT ![t] = [r EXCEPT !.pc = "rd1"]]
                /\ lock' = t
    /\ UNCHANGED <<resource, driverMode, cache, offsetSize, lengthSize, baseAddress,
                   rootAddress, mpc, sbVersion, lineReads, calls, prev, datasets, h5, alone>>

\* the driver read that fills the first line
IoRead1(t) ==
    /\ io[t].pc = "rd1"
    /\ LET d == DriverRead(io[t].line, CACHE_LINE_SIZE)
           r == [io[t] EXCEPT !.nreads = @ + 1]
       IN  IF d.ok
           THEN /\ cache' = CacheInsert(cache, r.line, d.bytes)
                /\ lineReads' = CountRead(r.line)
                /\ ServeFrom(t, cache', r)
           ELSE /\ io' = [io EXCEPT ![t] = [r EXCEPT !.pc = "raised"]]
                /\ lock' = LockAfterRaise(t)
                /\ UNCHANGED <<cache, lineReads>>
    /\ UNCHANGED <<resource, driverMode, offsetSize, lengthSize, baseAddress,
                   rootAddress, mpc, sbVersion, calls, prev, datasets, h5, alone>>

\* the driver read that fills the next line
IoRead2(t) ==
    /\ io[t].pc = "rd2"
    /\ LET d == DriverRead(NextLine(io[t]), CACHE_LINE_SIZE)
           r == [io[t] EXCEPT !.nreads = @ + 1]
       IN  IF d.ok
           THEN /\ cache' = CacheInsert(cache, NextLine(r), d.bytes)
                /\ lineReads' = CountRead(NextLine(r))
                /\ io' = [io EXCEPT ![t] = [r EXCEPT !.pc = "ret", !.data = TwoLines(cache', r)]]
                /\ lock' = NoThread
           ELSE /\ io' = [io EXCEPT ![t] = [r EXCEPT !.pc = "raised"]]
                /\ lock' = LockAfterRaise(t)
                /\ UNCHANGED <<cache, lineReads>>
    /\ UNCHANGED <<resource, driverMode, offsetSize, lengthSize, baseAddress,
                   rootAddress, mpc, sbVersion, calls, prev, datasets, h5, alone>>

\* size > CACHE_LINE_SIZE: the direct read
IoDirect(t) ==
    /\ io[t].pc = "direct"
    /\ LET d == DriverRead(io[t].pos + baseAddress, io[t].size)
           r == [io[t] EXCEPT !.nreads = @ + 1]
       IN  io' = [io EXCEPT ![t] = IF d.ok THEN [r EXCEPT !.pc = "ret", !.data = d.bytes]
                                           ELSE [r EXCEPT !.pc = "raised"]]
    /\ UNCHANGED <<resource, driverMode, cache, lock, offsetSize, lengthSize, baseAddress,
                   rootAddress, mpc, sbVersion, lineReads, calls, prev, datasets, h5, alone>>

(***************************************************************************)
(* H5Coro.__init__ and H5Coro.readSuperblock (the main thread)             *)
(***************************************************************************)
SIZE_2_FORMAT == {1, 2, 4, 8}

\* the constructor is at step pc and its ioRequest has ended
SbAt(pc) == mpc = pc /\ io[MainThread].pc \in {"ret", "raised"}

\* the constructor ends with an exception
SbFail ==
    /\ mpc' = "failed"
    /\ UNCHANGED <<io, offsetSize, lengthSize, baseAddress, rootAddress, sbVersion>>

\* the constructor goes on to step pc with ioRequest(pos, size)
SbNext(pc, pos, size) ==
    /\ mpc' = pc
    /\ io' = IoCall(MainThread, pos, size)

\* block = self.ioRequest(0, 9)
SbBegin ==
    /\ mpc = "new"
    /\ SbNext("signature", 0, 9)
    /\ UNCHANGED <<resource, driverMode, cache, lock, offsetSize, lengthSize, baseAddress,
                   rootAddress, sbVersion, lineReads, calls, prev, datasets, h5, alone>>

\* the signature and version checks, then the next read
SbSignature ==
    /\ SbAt("signature")
    /\ LET block == io[MainThread].data
       IN  IF \/ io[MainThread].pc = "raised"
              \/ Len(block) # 9
              \/ SubSeq(block, 1, 8) # H5_SIGNATURE
              \/ block[9] \notin {0, 2}
           THEN SbFail
           ELSE /\ sbVersion' = block[9]
                /\ SbNext(IF block[9] = 0 THEN "versions" ELSE "sizes", 9, 2)
                /\ UNCHANGED <<offsetSize, lengthSize, baseAddress, rootAddress>>
    /\ UNCHANGED <<resource, driverMode, cache, lock, lineReads, calls, prev, datasets, h5, alone>>

\* version 0: the free space and root table versions
SbVersions ==
    /\ SbAt("versions")
    /\ LET block == io[MainThread].data
       IN  IF \/ io[MainThread].pc = "raised"
              \/ Len(block) # 2
              \/ block[1] # 0
              \/ block[2] # 0
           THEN SbFail
           ELSE /\ SbNext("sizes", 13, 2)
                /\ UNCHANGED <<offsetSize, lengthSize, baseAddress, rootAddress, sbVersion>>
    /\ UNCHANGED <<resource, driverMode, cache, lock, lineReads, calls, prev, datasets, h5, alone>>

\* self.offsetSize, self.lengthSize = struct.unpack('<BB', block)
SbSizes ==
    /\ SbAt("sizes")
    /\ LET block == io[MainThread].data
       IN  IF io[MainThread].pc = "raised" \/ Len(block) # 2
           THEN SbFail
           ELSE /\ offsetSize' = block[1]
                /\ lengthSize' = block[2]
                /\ SbNext("base", IF sbVersion = 0 THEN 24 ELSE 12, block[1])
                /\ UNCHANGED <<baseAddress, rootAddress, sbVersion>>
    /\ UNCHANGED <<resource, driverMode, cache, lock, lineReads, calls, prev, datasets, h5, alone>>

\* self.baseAddress = struct.unpack(...)
SbBase ==
    /\ SbAt("base")
    /\ LET block == io[MainThread].data
       IN  IF \/ io[MainThread].pc = "raised"
              \/ offsetSize \notin SIZE_2_FORMAT
              \/ Len(block) # offsetSize
           THEN SbFail
           ELSE /\ baseAddress' = Unpack(block)
                /\ SbNext("root", IF sbVersion = 0 THEN 24 + 5 * offsetSize
                                                   ELSE 12 + 3 * offsetSize, offsetSize)
                /\ UNCHANGED <<offsetSize, lengthSize, rootAddress, sbVersion>>
    /\ UNCHANGED <<resource, driverMode, cache, lock, lineReads, calls, prev, datasets, h5, alone>>

\* self.rootAddress = self.readSuperblock()
SbRoot ==
    /\ SbAt("root")
    /\ LET block == io[MainThread].data
       IN  IF io[MainThread].pc = "raised" \/ Len(block) # offsetSize
           THEN SbFail
           ELSE /\ rootAddress' = Unpack(block)
                /\ mpc' = IF datasets = <<>> THEN "done" ELSE "spawn"
                /\ io' = [io EXCEPT ![MainThread] = IoIdle]
                /\ UNCHANGED <<offsetSize, lengthSize, baseAddress, sbVersion>>
    /\ UNCHANGED <<resource, driverMode, cache, lock, lineReads, calls, prev, datasets, h5, alone>>

Constructor == SbBegin \/ SbSignature \/ SbVersions \/ SbSizes \/ SbBase \/ SbRoot

(***************************************************************************)
(* H5Dataset: the state of a worker                                        *)
(*                                                                         *)
(* A worker runs readDataset and stops only inside ioRequest. Its state is *)
(* the H5Dataset object together with its call stack: one frame for each   *)
(* function that is running, holding the function's name (fn), the place   *)
(* where it goes on (pc) and its arguments and local variables (v).        *)
(* status is "ok" while the code runs, "need" while an ioRequest (req) is  *)
(* under way, "fatal" when a FatalError has ended the thread, "crash" when *)
(* any other exception has, and "done" when readDataset has returned.      *)
(***************************************************************************)
ALL_ROWS == 0 - 1
MAX_NDIMS == 2
CUSTOM_V1_FLAG == 128
SIG_FRHP == <<70, 82, 72, 80>>
SIG_OCHK == <<79, 67, 72, 75>>
CONTIGUOUS_LAYOUT == 1
CHUNKED_LAYOUT == 2

\* the element of a one-element set
The(S) == CHOOSE x \in S : TRUE

\* value & bit, for a bit that is a power of two
Bit(value, bit) == (value \div bit) % 2 = 1
\* the integer read is INVALID_VALUE[size]
IsInvalidValue(raw) == Len(raw) \in SIZE_2_FORMAT /\ raw = Ones(Len(raw))
\* a * b, kept as ValueCap from ValueCap on
Times(a, b) == IF a = 0 \/ b = 0 THEN 0
               ELSE IF a >= ValueCap \div b THEN ValueCap ELSE a * b

\* bytes.decode('utf-8') succeeds
RECURSIVE Utf8(_, _)
Utf8(b, i) ==
    LET Cont(j) == j <= Len(b) /\ b[j] >= 128 /\ b[j] <= 191
    IN  IF i > Len(b) THEN TRUE
        ELSE IF b[i] < 128 THEN Utf8(b, i + 1)
        ELSE IF b[i] >= 194 /\ b[i] <= 223 THEN Cont(i + 1) /\ Utf8(b, i + 2)
        ELSE IF b[i] >= 224 /\ b[i] <= 239
             THEN /\ Cont(i + 1) /\ Cont(i + 2)
                  /\ (b[i] = 224 => b[i + 1] >= 160)
                  /\ (b[i] = 237 => b[i + 1] <= 159)
                  /\ Utf8(b, i + 3)
        ELSE IF b[i] >= 240 /\ b[i] <= 244
             THEN /\ Cont(i + 1) /\ Cont(i + 2) /\ Cont(i + 3)
                  /\ (b[i] = 240 => b[i + 1] >= 144)
                  /\ (b[i] = 244 => b[i + 1] <= 143)
                  /\ Utf8(b, i + 4)
        ELSE FALSE

\* dataset.split('/')
RECURSIVE Split(_)
Split(p) ==
    IF \A i \in 1..Len(p) : p[i] # 47 THEN <<p>>
    ELSE LET i == CHOOSE j \in 1..Len(p) : p[j] = 47 /\ \A l \in 1..(j - 1) : p[l] # 47
         IN  <<SubSeq(p, 1, i - 1)>> \o Split(SubSeq(p, i + 1, Len(p)))

\* H5Dataset.__init__
NewDataset(dataset) ==
    [status |-> "ok", err |-> "", stack |-> <<>>, req |-> <<0, 0>>, kind |-> "",
     raw |-> <<>>, val |-> 0, ret |-> 0,
     datasetStartRow |-> 0, datasetNumRows |-> ALL_ROWS, metaOnly |-> FALSE,
     pos |-> rootAddress, datasetPath |-> Split(dataset), datasetLevel |-> 0,
     datasetFound |-> FALSE, ndims |-> NoValue, dimensions |-> <<>>,
     typeSize |-> 0, type |-> NoValue, signedval |-> TRUE,
     fillsize |-> 0, fillvalue |-> NoValue, layout |-> NoValue,
     size |-> 0, address |-> 0, addressBytes |-> <<>>,
     chunkElements |-> 0, chunkDimensions |-> <<>>, elementSize |-> 0,
     filter |-> {}]

\* the frame of the running function, and its arguments and local variables
Top(s) == s.stack[Len(s.stack)]
V(s) == Top(s).v
\* the running function goes on at pc
At(s, pc) == [s EXCEPT !.stack[Len(s.stack)].pc = pc]
\* name = value, for a local variable of the running function
Let(s, name, value) == [s EXCEPT !.stack[Len(s.stack)].v = (name :> value) @@ @]
\* self.pos = p
Seek(s, p) == [s EXCEPT !.pos = p]
\* self.pos += n
Skip(s, n) == [s EXCEPT !.pos = @ + n]

\* (mutant) the cursor stays where the descent has left it
RestoreNot(s) == s

\* self.pos = return_position, after a descent
Restore(s) == Seek(s, V(s).return_position)

\* fn(args) is called; the caller goes on at pc when it returns
Call(s, fn, args, pc) ==
    [s EXCEPT !.stack = Append([@ EXCEPT ![Len(@)].pc = pc],
                               [fn |-> fn, pc |-> 0, v |-> args])]
\* return value; readDataset is the target of the thread
Return(s, value) ==
    [s EXCEPT !.stack = SubSeq(@, 1, Len(@) - 1), !.ret = value,
              !.status = IF Len(s.stack) = 1 THEN "done" ELSE @]

\* an exception that is not a FatalError: nothing catches it
Crash(s, msg) == [s EXCEPT !.status = "crash", !.err = msg]
\* raise FatalError(msg): the innermost readMessage that is running catches
\* it (pc 2 there), and when there is none the thread ends
FatalError(s, msg) ==
    LET tries == {i \in 1..Len(s.stack) : s.stack[i].fn = "readMessage"}
        i == CHOOSE j \in tries : \A l \in tries : l <= j
    IN  IF tries = {} THEN [s EXCEPT !.status = "fatal", !.err = msg]
        ELSE [s EXCEPT !.stack = [SubSeq(@, 1, i) EXCEPT ![i].pc = 2]]

\* raw = self.resourceObject.ioRequest(self.pos, size) is called; kind is
\* what is done with raw; the running function goes on at pc
ioRequest(s, kind, size, pc) ==
    [At(s, pc) EXCEPT !.status = "need", !.req = <<s.pos, size>>, !.kind = kind]
\* self.readArray(size)
readArray(s, size, pc) == ioRequest(s, "array", size, pc)
\* self.readField(size)
readField(s, size, pc) == ioRequest(s, "field", size, pc)
\* self.readArray(size).decode('utf-8')
readString(s, size, pc) == ioRequest(s, "string", size, pc)

\* ioRequest has ended with r: self.pos += size, then
\* struct.unpack(f'<{SIZE_2_FORMAT[size]}', raw)[0] for a field
Resume(s, r) ==
    LET size == s.req[2]
        t == [s EXCEPT !.status = "ok", !.pos = @ + size, !.raw = r.data]
    IN  IF ~r.ok THEN Crash(s, "driver error")
        ELSE IF s.kind = "array" THEN t
        ELSE IF s.kind = "string"
        THEN IF Utf8(r.data, 1) THEN t ELSE Crash(t, "UnicodeDecodeError")
        ELSE IF size \notin SIZE_2_FORMAT THEN Crash(t, "KeyError")
        ELSE IF Len(r.data) # size THEN Crash(t, "struct.error")
        ELSE [t EXCEPT !.val = Unpack(r.data)]

\* the fields that are read for the log only
readFields(s) ==
    IF V(s).sizes = <<>> THEN Return(s, NoValue)
    ELSE readField(Let(s, "sizes", Tail(V(s).sizes)), Head(V(s).sizes), 0)

(***************************************************************************)
(* H5Dataset: readDataset and the object headers                           *)
(*                                                                         *)
(* Each function is given by its steps: the step at pc runs the function's *)
(* statements from there to its next call of ioRequest or of a function,   *)
(* or to its return. After a read, s.val is the field and s.raw its bytes; *)
(* after a call, s.ret is what the function returned.                      *)
(***************************************************************************)
\* self.address == INVALID_VALUE[self.resourceObject.offsetSize]
InvalidAddress(s) ==
    IF offsetSize <= 2 THEN s.address = Pow256(offsetSize) - 1
    ELSE s.addressBytes = Ones(offsetSize)

\* row_size *= self.dimensions[d] for d in range(1, self.ndims)
RECURSIVE RowSize(_, _)
RowSize(s, d) ==
    IF d <= 1 THEN s.typeSize ELSE Times(RowSize(s, d - 1), s.dimensions[d])

\* self.TO_DATATYPE[self.type][self.signedval][self.typeSize] is there
ToDatatype(s) ==
    \/ s.type = 0 /\ s.typeSize \in {1, 2, 4, 8}
    \/ s.type = 1 /\ s.signedval /\ s.typeSize \in {4, 8}
    \/ s.type = 3 /\ s.signedval /\ s.typeSize = 1

\* readDataset after the sanity checks: the buffer exists only for a chunked
\* layout, self.fill is not an attribute, and readBTreeV1 is called with one
\* argument too many, so that every way through ends with an exception
readData(s) ==
    LET row_size == RowSize(s, s.ndims)
        first_dimension == IF s.ndims > 0 /\ s.dimensions[1] # 0 THEN s.dimensions[1] ELSE 1
        numRows == IF s.datasetNumRows = ALL_ROWS THEN first_dimension
                                                  ELSE s.datasetNumRows
        buffer_size == Times(row_size, numRows)
        buffer_offset == Times(row_size, s.datasetStartRow)
        allocated == ~s.metaOnly /\ buffer_size > 0 /\ s.layout = CHUNKED_LAYOUT
        rows == [s EXCEPT !.datasetNumRows = numRows]
    IN  IF s.datasetStartRow + numRows > first_dimension
        THEN FatalError(rows, "read exceeds number of rows")
        ELSE IF allocated /\ s.fillsize > 0 THEN Crash(rows, "AttributeError")
        ELSE IF ~allocated THEN Crash(rows, "UnboundLocalError")
        ELSE IF ~ToDatatype(s) THEN FatalError(rows, "unable to set data type")
        ELSE IF s.size # 0 /\ s.size < buffer_offset + buffer_size
        THEN FatalError(rows, "read exceeds available data")
        ELSE IF s.elementSize # s.typeSize
        THEN FatalError(rows, "chunk element size does not match data element size")
        ELSE IF s.chunkElements <= 0
        THEN FatalError(rows, "invalid number of chunk elements")
        ELSE Crash(rows, "TypeError")

readDataset(s, pc) ==
    CASE pc = 0 -> Call(s, "readObjHdr", <<>>, 1)
      [] pc = 1 ->
            IF s.typeSize <= 0 THEN FatalError(s, "missing data type information")
            ELSE IF s.ndims = NoValue
            THEN FatalError(s, "missing data dimension information")
            ELSE IF InvalidAddress(s) THEN FatalError(s, "invalid data address")
            ELSE readData(s)

readObjHdr(s, pc) ==
    CASE pc = 0 -> readField(s, 1, 1)
      [] pc = 1 ->
            IF s.val = 0 THEN Call(s, "readObjHdrV0", <<>>, 2)
            ELSE IF s.val = 1 THEN Call(s, "readObjHdrV1", <<>>, 2)
            ELSE FatalError(s, "unsupported object header version")
      [] pc = 2 -> Return(s, NoValue)

readObjHdrV0(s, pc) ==
    CASE pc = 0 -> readField(Let(s, "starting_position", s.pos), 4, 1)
      [] pc = 1 -> readField(Let(s, "signature", s.raw), 1, 2)
      [] pc = 2 ->
            IF V(s).signature # SIG_OHDR
            THEN FatalError(s, "invalid version 0 object header signature")
            ELSE IF s.val # 2 THEN FatalError(s, "unsupported header version")
            ELSE readField(s, 1, 3)
      \* access, modification, change and birth time
      [] pc = 3 ->
            IF Bit(s.val, 32)
            THEN Call(Let(s, "obj_hdr_flags", s.val), "readFields",
                      [sizes |-> <<4, 4, 4, 4>>], 4)
            ELSE At(Let(s, "obj_hdr_flags", s.val), 4)
      \* max compact and max dense attributes
      [] pc = 4 ->
            IF Bit(V(s).obj_hdr_flags, 16)
            THEN Call(s, "readFields", [sizes |-> <<2, 2>>], 5)
            ELSE At(s, 5)
      [] pc = 5 -> readField(s, 2 ^ (V(s).obj_hdr_flags % 4), 6)
      \* self.pos += self.readMessagesV0(end_of_hdr, obj_hdr_flags)
      [] pc = 6 ->
            Call(Let(s, "pos", s.pos), "readMessagesV0",
                 [end_of_hdr |-> s.pos + s.val, obj_hdr_flags |-> V(s).obj_hdr_flags], 7)
      [] pc = 7 -> Return(Seek(s, V(s).pos + s.ret + 4),
                          V(s).pos + s.ret + 4 - V(s).starting_position)

readMessagesV0(s, pc) ==
    CASE pc = 0 -> At(Let(s, "starting_position", s.pos), 1)
      \* while self.pos < end_of_hdr
      [] pc = 1 -> IF s.pos < V(s).end_of_hdr THEN readField(s, 1, 2) ELSE At(s, 7)
      [] pc = 2 -> readField(Let(s, "msg_type", s.val), 2, 3)
      [] pc = 3 -> readField(Let(s, "msg_size", s.val), 1, 4)
      [] pc = 4 -> IF Bit(V(s).obj_hdr_flags, 4) THEN readField(s, 2, 5) ELSE At(s, 5)
      [] pc = 5 ->
            Call(s, "readMessage",
                 [msg_type |-> V(s).msg_type, msg_size |-> V(s).msg_size,
                  obj_hdr_flags |-> V(s).obj_hdr_flags], 6)
      [] pc = 6 ->
            IF s.ret # V(s).msg_size
            THEN FatalError(s, "header message different size than specified")
            ELSE IF s.datasetFound THEN At(Seek(s, V(s).end_of_hdr), 7)
            ELSE At(Skip(s, s.ret), 1)
      [] pc = 7 ->
            IF s.pos # V(s).end_of_hdr
            THEN FatalError(s, "did not read correct number of bytes")
            ELSE Return(s, s.pos - V(s).starting_position)

readObjHdrV1(s, pc) ==
    \* self.pos += 1; num_hdr_msgs = self.readField(2)
    CASE pc = 0 -> readField(Skip(Let(s, "starting_position", s.pos), 1), 2, 1)
      \* obj_ref_count
      [] pc = 1 -> readField(s, 4, 2)
      \* obj_hdr_size
      [] pc = 2 -> readField(s, lengthSize, 3)
      \* self.pos += self.readMessagesV1(end_of_hdr, self.CUSTOM_V1_FLAG)
      [] pc = 3 ->
            Call(Let(s, "pos", s.pos), "readMessagesV1",
                 [end_of_hdr |-> s.pos + s.val, obj_hdr_flags |-> CUSTOM_V1_FLAG], 4)
      [] pc = 4 -> Return(Seek(s, V(s).pos + s.ret),
                          V(s).pos + s.ret - V(s).starting_position)

SIZE_OF_V1_PREFIX == 8

\* (mutant) the loop goes on while a prefix is left before end_of_hdr
MoreMessagesV1OrPrefix(s) == s.pos <= V(s).end_of_hdr - SIZE_OF_V1_PREFIX

\* while self.pos < (end_of_hdr - SIZE_OF_V1_PREFIX)
MoreMessagesV1(s) == s.pos < V(s).end_of_hdr - SIZE_OF_V1_PREFIX

readMessagesV1(s, pc) ==
    CASE pc = 0 -> At(Let(s, "starting_position", s.pos), 1)
      [] pc = 1 -> IF MoreMessagesV1(s) THEN readField(s, 2, 2) ELSE At(s, 8)
      [] pc = 2 -> readField(Let(s, "msg_type", s.val), 2, 3)
      \* msg_flags
      [] pc = 3 -> readField(Let(s, "msg_size", s.val), 1, 4)
      \* reserved1
      [] pc = 4 -> readField(s, 1, 5)
      [] pc = 5 -> readField(Let(s, "reserved1", s.val), 2, 6)
      [] pc = 6 ->
            IF V(s).reserved1 # 0 /\ s.val # 0
            THEN FatalError(s, "invalid reserved fields")
            ELSE Call(s, "readMessage",
                      [msg_type |-> V(s).msg_type, msg_size |-> V(s).msg_size,
                       obj_hdr_flags |-> V(s).obj_hdr_flags], 7)
      \* bytes_read += ((8 - (bytes_read % 8)) % 8)
      [] pc = 7 ->
            IF s.ret + ((8 - (s.ret % 8)) % 8) # V(s).msg_size
            THEN FatalError(s, "header message different size than specified")
            ELSE IF s.datasetFound THEN At(Seek(s, V(s).end_of_hdr), 8)
            ELSE At(Skip(s, s.ret + ((8 - (s.ret % 8)) % 8)), 1)
      \* move past gap
      [] pc = 8 ->
            IF s.pos < V(s).end_of_hdr
            THEN Return(Seek(s, V(s).end_of_hdr),
                        V(s).end_of_hdr - V(s).starting_position)
            ELSE IF s.pos # V(s).end_of_hdr
            THEN FatalError(s, "did not read correct number of bytes")
            ELSE Return(s, s.pos - V(s).starting_position)

\* msg_handler_table
Handlers ==
    [t \in {1, 2, 3, 5, 6, 8, 11, 12, 16, 17, 21} |->
        CASE t = 1 -> "dataspaceMsgHandler"
          [] t = 2 -> "linkinfoMsgHandler"
          [] t = 3 -> "datatypeMsgHandler"
          [] t = 5 -> "fillvalueMsgHandler"
          [] t = 6 -> "linkMsgHandler"
          [] t = 8 -> "datalayoutMsgHandler"
          [] t = 11 -> "filterMsgHandler"
          [] t = 12 -> "attributeMsgHandler"
          [] t = 16 -> "headercontMsgHandler"
          [] t = 17 -> "symboltableMsgHandler"
          [] t = 21 -> "attributeinfoMsgHandler"]

readMessage(s, pc) ==
    \* try: return msg_handler_table[msg_type](msg_size, obj_hdr_flags)
    CASE pc = 0 ->
            IF V(s).msg_type \in DOMAIN Handlers
            THEN Call(s, Handlers[V(s).msg_type],
                      [msg_size |-> V(s).msg_size, obj_hdr_flags |-> V(s).obj_hdr_flags], 1)
            ELSE Crash(s, "KeyError")
      [] pc = 1 -> Return(s, s.ret)
      \* except FatalError: return msg_size
      [] pc = 2 -> Return(s, V(s).msg_size)

(***************************************************************************)
(* H5Dataset: the message handlers                                         *)
(***************************************************************************)
dataspaceMsgHandler(s, pc) ==
    CASE pc = 0 -> readField(Let(s, "starting_position", s.pos), 1, 1)
      [] pc = 1 -> readField(Let(s, "version", s.val), 1, 2)
      [] pc = 2 -> readField(Let(s, "dimensionality", s.val), 1, 3)
      \* flags; self.pos += ((version == 1) and 5 or 1)
      [] pc = 3 ->
            IF V(s).version # 1 \/ V(s).version # 2
            THEN FatalError(Skip(s, IF V(s).version = 1 THEN 5 ELSE 1),
                            "unsupported dataspace version")
            ELSE IF Bit(s.val, 2)
            THEN FatalError(Skip(s, IF V(s).version = 1 THEN 5 ELSE 1),
                            "unsupported permutation indexes")
            ELSE IF V(s).dimensionality > MAX_NDIMS
            THEN FatalError(Skip(s, IF V(s).version = 1 THEN 5 ELSE 1),
                            "unsupported number of dimensions")
            ELSE At([Skip(Let(Let(s, "flags", s.val), "x", 0),
                          IF V(s).version = 1 THEN 5 ELSE 1)
                        EXCEPT !.ndims = Min(V(s).dimensionality, MAX_NDIMS)], 4)
      \* for x in range(self.ndims), then the dimension permutations
      [] pc = 4 ->
            IF V(s).x < s.ndims THEN readField(s, lengthSize, 5)
            ELSE IF s.ndims > 0 /\ Bit(V(s).flags, 1)
            THEN Return(Skip(s, V(s).dimensionality * lengthSize),
                        s.pos + V(s).dimensionality * lengthSize - V(s).starting_position)
            ELSE Return(s, s.pos - V(s).starting_position)
      [] pc = 5 -> At(Let([s EXCEPT !.dimensions = Append(@, s.val)], "x", V(s).x + 1), 4)

\* the header of a fractal heap is read at the current position, then the
\* call of readDirectBlock or readIndirectBlock passes one argument too many
readFractalHeap(s, pc) ==
    CASE pc = 0 -> readField(s, 4, 1)
      [] pc = 1 -> readField(Let(s, "signature", s.raw), 1, 2)
      \* heap_obj_id_len
      [] pc = 2 -> readField(Let(s, "version", s.val), 2, 3)
      \* io_filter_len
      [] pc = 3 -> readField(s, 2, 4)
      \* flags ... curr_num_rows
      [] pc = 4 ->
            Call(Let(s, "io_filter_len", s.val), "readFields",
                 [sizes |-> <<1, 4, lengthSize, offsetSize, lengthSize, offsetSize>>
                            \o [i \in 1..8 |-> lengthSize]
                            \o <<2, lengthSize, lengthSize, 2, 2, offsetSize, 2>>], 5)
      [] pc = 5 ->
            IF V(s).signature # SIG_FRHP THEN FatalError(s, "invalid heap signature")
            ELSE IF V(s).version # 0 THEN FatalError(s, "unsupported heap version")
            ELSE IF V(s).io_filter_len > 0
            THEN Call(s, "readFields", [sizes |-> <<lengthSize, 4>>], 6)
            ELSE Crash(Skip(s, 4), "TypeError")
      [] pc = 6 -> FatalError(s, "Filtering unsupported on fractal heap")

\* linkinfoMsgHandler (max_create_size 8) and attributeinfoMsgHandler (2)
infoMsgHandler(s, pc, max_create_size) ==
    CASE pc = 0 -> readField(Let(s, "starting_position", s.pos), 1, 1)
      [] pc = 1 -> readField(Let(s, "version", s.val), 1, 2)
      \* max_create_index
      [] pc = 2 ->
            IF V(s).version # 0 THEN FatalError(s, "unsupported link info version")
            ELSE IF Bit(s.val, 1) THEN readField(Let(s, "flags", s.val), max_create_size, 3)
            ELSE At(Let(s, "flags", s.val), 3)
      \* heap_address
      [] pc = 3 -> readField(s, offsetSize, 4)
      \* name_index
      [] pc = 4 -> readField(Let(s, "heap_address", s.raw), offsetSize, 5)
      \* create_order_index
      [] pc = 5 -> IF Bit(V(s).flags, 2) THEN readField(s, offsetSize, 6) ELSE At(s, 6)
      [] pc = 6 ->
            IF IsInvalidValue(V(s).heap_address)
            THEN Call(s, "readFractalHeap", <<>>, 7)
            ELSE At(s, 7)
      [] pc = 7 -> Return(s, s.pos - V(s).starting_position)

linkinfoMsgHandler(s, pc) == infoMsgHandler(s, pc, 8)

attributeinfoMsgHandler(s, pc) == infoMsgHandler(s, pc, 2)

datatypeMsgHandler(s, pc) ==
    CASE pc = 0 -> readField(Let(s, "starting_position", s.pos), 4, 1)
      [] pc = 1 -> readField(Let(s, "version_class", s.raw), 4, 2)
      [] pc = 2 ->
            The({IF V(s).version_class[1] \div 16 # 1
                 THEN FatalError(t, "unsupported datatype version")
                 \* bit offset, bit precision
                 ELSE IF t.type = 0 THEN Call(t, "readFields", [sizes |-> <<2, 2>>], 3)
                 \* ... exponent location and size, mantissa location and size, bias
                 ELSE IF t.type = 1
                 THEN Call(t, "readFields", [sizes |-> <<2, 2, 1, 1, 1, 1, 4>>], 3)
                 ELSE IF t.type = 9
                 THEN FatalError(t, "variable length data types unsupported")
                 ELSE IF t.type = 3
                 THEN At([t EXCEPT !.typeSize = 1, !.signedval = TRUE], 3)
                 ELSE FatalError(t, "unsupported datatype")
                 : t \in {[s EXCEPT !.typeSize = s.val,
                                    !.type = V(s).version_class[1] % 16,
                                    !.signedval = Bit(V(s).version_class[2], 8)]}})
      [] pc = 3 -> Return(s, s.pos - V(s).starting_position)

fillvalueMsgHandler(s, pc) ==
    CASE pc = 0 -> readField(Let(s, "starting_position", s.pos), 1, 1)
      [] pc = 1 ->
            IF s.val # 2 /\ s.val # 3 THEN FatalError(s, "invalid fill value version")
            \* version 2: space allocation time, fill value write time
            ELSE IF s.val = 2 THEN Call(s, "readFields", [sizes |-> <<1, 1>>], 2)
            \* version 3: flags
            ELSE readField(s, 1, 5)
      \* fill_value_defined
      [] pc = 2 -> readField(s, 1, 3)
      [] pc = 3 -> IF s.val # 0 THEN readField(s, 4, 4) ELSE At(s, 8)
      [] pc = 4 ->
            IF s.val > 0 THEN readField([s EXCEPT !.fillsize = s.val], s.val, 7)
            ELSE At([s EXCEPT !.fillsize = s.val], 8)
      [] pc = 5 -> IF Bit(s.val, 32) THEN readField(s, 4, 6) ELSE At(s, 8)
      [] pc = 6 -> readField([s EXCEPT !.fillsize = s.val], s.val, 7)
      [] pc = 7 -> At([s EXCEPT !.fillvalue = s.val], 8)
      [] pc = 8 -> Return(s, s.pos - V(s).starting_position)

\* (mutant) the name of the link is a component of the path: the dataset
\* is found
FollowLinkFound(s) ==
    [Let(s, "follow_link", TRUE) EXCEPT !.datasetLevel = @ + 1, !.datasetFound = TRUE]

\* self.datasetLevel += 1; follow_link = True
FollowLink(s) == [Let(s, "follow_link", TRUE) EXCEPT !.datasetLevel = @ + 1]

linkMsgHandler(s, pc) ==
    CASE pc = 0 -> readField(Let(s, "starting_position", s.pos), 1, 1)
      [] pc = 1 -> readField(Let(s, "version", s.val), 1, 2)
      [] pc = 2 ->
            IF V(s).version # 1 THEN FatalError(s, "unsupported link message version")
            ELSE IF Bit(s.val, 8) THEN readField(Let(s, "flags", s.val), 1, 3)
            ELSE At(Let(Let(s, "flags", s.val), "link_type", 0), 4)
      [] pc = 3 -> At(Let(s, "link_type", s.val), 4)
      \* create_order
      [] pc = 4 -> IF Bit(V(s).flags, 4) THEN readField(s, 8, 5) ELSE At(s, 5)
      \* char_set
      [] pc = 5 -> IF Bit(V(s).flags, 16) THEN readField(s, 1, 6) ELSE At(s, 6)
      \* link_name_len
      [] pc = 6 -> readField(s, 2 ^ (V(s).flags % 4), 7)
      \* link_name
      [] pc = 7 -> readString(s, s.val, 8)
      \* if link_name == self.datasetPath[self.datasetLevel]
      [] pc = 8 ->
            IF s.datasetLevel >= Len(s.datasetPath) THEN Crash(s, "IndexError")
            ELSE The({IF V(s).link_type = 0 THEN readField(t, offsetSize, 9)
                      ELSE IF V(s).link_type = 1 \/ V(s).link_type = 64
                      THEN readField(t, 2, 11)
                      ELSE FatalError(t, "unsupported link type")
                      : t \in {IF s.raw = s.datasetPath[s.datasetLevel + 1]
                               THEN FollowLink(s)
                               ELSE Let(s, "follow_link", FALSE)}})
      \* obj_hdr_addr
      [] pc = 9 ->
            IF V(s).follow_link
            THEN Call(Seek(Let(s, "return_position", s.pos), s.val), "readObjHdr", <<>>, 10)
            ELSE At(s, 13)
      [] pc = 10 -> At(Restore(s), 13)
      \* soft_link, ext_link
      [] pc = 11 -> readString(s, s.val, 12)
      [] pc = 12 ->
            IF V(s).follow_link
            THEN FatalError(s, IF V(s).link_type = 1
                               THEN "unsupported soft link encountered"
                               ELSE "unsupported external link encountered")
            ELSE At(s, 13)
      [] pc = 13 -> Return(s, s.pos - V(s).starting_position)

datalayoutMsgHandler(s, pc) ==
    CASE pc = 0 -> readField(Let(s, "starting_position", s.pos), 1, 1)
      [] pc = 1 -> readField(Let(s, "version", s.val), 1, 2)
      [] pc = 2 ->
            The({IF V(s).version # 3 THEN FatalError(t, "invalid data layout version")
                 \* COMPACT_LAYOUT
                 ELSE IF t.layout = 0 THEN readField(t, 2, 3)
                 ELSE IF t.layout = CONTIGUOUS_LAYOUT THEN readField(t, offsetSize, 4)
                 ELSE IF t.layout = CHUNKED_LAYOUT THEN readField(t, 1, 6)
                 ELSE FatalError(t, "unsupported data layout")
                 : t \in {[s EXCEPT !.layout = s.val]}})
      [] pc = 3 ->
            At([s EXCEPT !.size = s.val, !.address = s.pos, !.addressBytes = <<>>,
                         !.pos = @ + s.val], 9)
      [] pc = 4 ->
            readField([s EXCEPT !.address = s.val, !.addressBytes = s.raw], lengthSize, 5)
      [] pc = 5 -> At([s EXCEPT !.size = s.val], 9)
      \* chunk_num_dim
      [] pc = 6 ->
            IF s.ndims # NoValue /\ Min(s.val - 1, MAX_NDIMS) # s.ndims
            THEN FatalError(s, "number of chunk dimensions does not match dimensionality of data")
            ELSE readField(Let(s, "chunk_num_dim", Min(s.val - 1, MAX_NDIMS)), offsetSize, 7)
      [] pc = 7 ->
            IF V(s).chunk_num_dim > 0
            THEN At(Let([s EXCEPT !.address = s.val, !.addressBytes = s.raw,
                                  !.chunkElements = 1], "i", 0), 8)
            ELSE readField([s EXCEPT !.address = s.val, !.addressBytes = s.raw], 4, 11)
      \* for _ in range(chunk_num_dim), then the element size
      [] pc = 8 ->
            IF V(s).i < V(s).chunk_num_dim THEN readField(s, 4, 10) ELSE readField(s, 4, 11)
      [] pc = 10 ->
            At(Let([s EXCEPT !.chunkDimensions = Append(@, s.val),
                             !.chunkElements = Times(@, s.val)], "i", V(s).i + 1), 8)
      [] pc = 11 -> At([s EXCEPT !.elementSize = s.val], 9)
      [] pc = 9 -> Return(s, s.pos - V(s).starting_position)

filterMsgHandler(s, pc) ==
    CASE pc = 0 -> readField(Let(s, "starting_position", s.pos), 1, 1)
      [] pc = 1 -> readField(Let(s, "version", s.val), 1, 2)
      [] pc = 2 ->
            IF V(s).version # 1 /\ V(s).version # 2
            THEN FatalError(s, "invalid filter version")
            ELSE At(Skip(Let(Let(s, "num_filters", s.val), "f", 0),
                         IF V(s).version = 1 THEN 6 ELSE 0), 3)
      \* for f in range(num_filters)
      [] pc = 3 ->
            IF V(s).f < V(s).num_filters THEN readField(s, 2, 4)
            ELSE Return(s, s.pos - V(s).starting_position)
      [] pc = 4 ->
            IF V(s).version = 1 \/ s.val >= 256
            THEN readField(Let(s, "filter", s.val), 2, 5)
            ELSE readField(Let(Let(s, "filter", s.val), "name_len", 0), 2, 6)
      \* flags
      [] pc = 5 -> readField(Let(s, "name_len", s.val), 2, 6)
      \* num_parms
      [] pc = 6 -> readField(Let(s, "flags", s.val), 2, 7)
      [] pc = 7 ->
            IF V(s).flags # 0 /\ V(s).flags # 1
            THEN FatalError(s, "invalid flags in filter message")
            ELSE IF V(s).name_len > 0
            THEN readString(Let(s, "num_parms", s.val), V(s).name_len, 8)
            ELSE At(Let(s, "num_parms", s.val), 9)
      [] pc = 8 -> At(Skip(s, (8 - (V(s).name_len % 8)) % 8), 9)
      \* self.filter[filter] = True, client data, padding
      [] pc = 9 ->
            At(Let([s EXCEPT !.filter = @ \cup {V(s).filter},
                             !.pos = @ + V(s).num_parms * 4
                                       + (IF V(s).version = 1 /\ V(s).num_parms % 2 = 1
                                          THEN 4 ELSE 0)],
                   "f", V(s).f + 1), 3)

\* the attribute's name is read, then self.datasetPath.length() is called,
\* which a list does not have
attributeMsgHandler(s, pc) ==
    CASE pc = 0 -> readField(Let(s, "starting_position", s.pos), 1, 1)
      \* self.pos += 1; name_size
      [] pc = 1 -> readField(Skip(Let(s, "version", s.val), 1), 2, 2)
      \* datatype_size
      [] pc = 2 -> readField(Let(s, "name_size", s.val), 2, 3)
      \* dataspace_size
      [] pc = 3 -> readField(s, 2, 4)
      [] pc = 4 ->
            IF V(s).version # 1 THEN FatalError(s, "invalid attribute version")
            ELSE readString(s, V(s).name_size, 5)
      [] pc = 5 -> Crash(Skip(s, (8 - (V(s).name_size % 8)) % 8), "AttributeError")

headercontMsgHandler(s, pc) ==
    CASE pc = 0 -> readField(s, offsetSize, 1)
      [] pc = 1 -> readField(Let(s, "hc_offset", s.val), lengthSize, 2)
      [] pc = 2 ->
            IF Bit(V(s).obj_hdr_flags, CUSTOM_V1_FLAG)
            \* self.pos += self.readMessagesV1(end_of_chdr, obj_hdr_flags)
            THEN Call(Seek(Let(s, "return_position", s.pos), V(s).hc_offset),
                      "readMessagesV1",
                      [end_of_hdr |-> V(s).hc_offset + s.val,
                       obj_hdr_flags |-> V(s).obj_hdr_flags], 3)
            ELSE readField(Seek(Let(s, "return_position", s.pos), V(s).hc_offset), 4, 4)
      [] pc = 3 ->
            Return(Seek(s, V(s).return_position + offsetSize + lengthSize),
                   offsetSize + lengthSize)
      \* self.readMessages is not an attribute
      [] pc = 4 ->
            IF s.raw # SIG_OCHK THEN FatalError(s, "invalid header continuation signature")
            ELSE Crash(s, "AttributeError")

\* the symbol table node at the current position: its first symbol is read
\* with self.resourceObject.offsetsize, which is not an attribute
readSymbolTable(s, pc) ==
    CASE pc = 0 -> readField(Let(s, "starting_position", s.pos), 4, 1)
      [] pc = 1 -> readField(Let(s, "signature", s.raw), 1, 2)
      \* self.pos += 1; num_symbols
      [] pc = 2 ->
            IF V(s).signature # SIG_SNOD THEN FatalError(s, "invalid symbol table signature")
            ELSE IF s.val # 1 THEN FatalError(s, "incorrect version of symbole table")
            ELSE readField(Skip(s, 1), 2, 3)
      [] pc = 3 ->
            IF s.val > 0 THEN Crash(s, "AttributeError")
            ELSE Return(s, s.pos - V(s).starting_position)

symboltableMsgHandler(s, pc) ==
    CASE pc = 0 -> readField(s, offsetSize, 1)
      [] pc = 1 -> readField(Let(s, "btree_addr", s.val), offsetSize, 2)
      \* heap_addr; read heap info
      [] pc = 2 -> readField(Seek(Let(s, "return_position", s.pos), s.val), 4, 3)
      [] pc = 3 -> readField(Let(s, "signature", s.raw), 1, 4)
      \* self.pos += 19; head_data_addr
      [] pc = 4 ->
            IF V(s).signature # SIG_HEAP THEN FatalError(s, "invalid heap signature")
            ELSE IF s.val # 0 THEN FatalError(s, "unsupported version of heap")
            ELSE readField(Skip(s, 19), offsetSize, 5)
      \* go to left-most node
      [] pc = 5 -> At(Seek(Let(s, "head_data_addr", s.val), V(s).btree_addr), 6)
      [] pc = 6 -> readField(s, 4, 7)
      [] pc = 7 -> readField(Let(s, "signature", s.raw), 1, 8)
      \* node_level
      [] pc = 8 ->
            IF V(s).signature # SIG_TREE THEN FatalError(s, "invalid group b-tree signature")
            ELSE IF s.val # 0 THEN FatalError(s, "only group b-trees supported")
            ELSE readField(s, 1, 9)
      \* skip entries used, sibling addresses and first key; first child
      [] pc = 9 ->
            IF s.val = 0 THEN At(s, 11)
            ELSE readField(Skip(s, 2 + 2 * offsetSize + lengthSize), offsetSize, 10)
      [] pc = 10 -> At(Seek(s, s.val), 6)
      \* traverse children left to right: entries_used
      [] pc = 11 -> readField(s, 2, 12)
      \* left_sibling
      [] pc = 12 -> readField(Let(s, "entries_used", s.val), offsetSize, 13)
      \* right_sibling
      [] pc = 13 -> readField(s, offsetSize, 14)
      \* key0
      [] pc = 14 ->
            readField(Let(Let(s, "right_sibling", s.val), "right_sibling_bytes", s.raw),
                      lengthSize, 15)
      [] pc = 15 -> At(Let(s, "i", 0), 16)
      \* for _ in range(entries_used): symbol_table_addr
      [] pc = 16 ->
            IF V(s).i < V(s).entries_used THEN readField(s, offsetSize, 17) ELSE At(s, 19)
      [] pc = 17 ->
            Call(Seek(Let(s, "current_node_pos", s.pos), s.val), "readSymbolTable",
                 [heap_address |-> V(s).head_data_addr], 18)
      \* skip next key
      [] pc = 18 ->
            At(Let(Seek(s, V(s).current_node_pos + lengthSize), "i", V(s).i + 1),
               IF s.datasetFound THEN 19 ELSE 16)
      \* exit loop or go to next node
      [] pc = 19 ->
            IF IsInvalidValue(V(s).right_sibling_bytes) \/ s.datasetFound THEN At(s, 23)
            ELSE readField(Seek(s, V(s).right_sibling), 4, 20)
      [] pc = 20 -> readField(Let(s, "signature", s.raw), 1, 21)
      [] pc = 21 -> readField(Let(s, "node_type", s.val), 1, 22)
      [] pc = 22 ->
            IF V(s).signature # SIG_TREE THEN FatalError(s, "invalid group b-tree signature")
            ELSE IF V(s).node_type # 0 THEN FatalError(s, "only group b-trees supported")
            ELSE IF s.val # 0 THEN FatalError(s, "traversed to non-leaf node")
            ELSE At(s, 11)
      [] pc = 23 ->
            Return(Seek(s, V(s).return_position + offsetSize + lengthSize),
                   offsetSize + lengthSize)

(***************************************************************************)
(* H5Dataset: a worker runs                                                *)
(***************************************************************************)
\* the running function takes its next step
Step(s) ==
    LET fn == Top(s).fn
        pc == Top(s).pc
    IN  CASE fn = "readDataset" -> readDataset(s, pc)
          [] fn = "readObjHdr" -> readObjHdr(s, pc)
          [] fn = "readObjHdrV0" -> readObjHdrV0(s, pc)
          [] fn = "readMessagesV0" -> readMessagesV0(s, pc)
          [] fn = "readObjHdrV1" -> readObjHdrV1(s, pc)
          [] fn = "readMessagesV1" -> readMessagesV1(s, pc)
          [] fn = "readMessage" -> readMessage(s, pc)
          [] fn = "readFields" -> readFields(s)
          [] fn = "dataspaceMsgHandler" -> dataspaceMsgHandler(s, pc)
          [] fn = "linkinfoMsgHandler" -> linkinfoMsgHandler(s, pc)
          [] fn = "datatypeMsgHandler" -> datatypeMsgHandler(s, pc)
          [] fn = "fillvalueMsgHandler" -> fillvalueMsgHandler(s, pc)
          [] fn = "linkMsgHandler" -> linkMsgHandler(s, pc)
          [] fn = "datalayoutMsgHandler" -> datalayoutMsgHandler(s, pc)
          [] fn = "filterMsgHandler" -> filterMsgHandler(s, pc)
          [] fn = "attributeMsgHandler" -> attributeMsgHandler(s, pc)
          [] fn = "headercontMsgHandler" -> headercontMsgHandler(s, pc)
          [] fn = "symboltableMsgHandler" -> symboltableMsgHandler(s, pc)
          [] fn = "attributeinfoMsgHandler" -> attributeinfoMsgHandler(s, pc)
          [] fn = "readFractalHeap" -> readFractalHeap(s, pc)
          [] fn = "readSymbolTable" -> readSymbolTable(s, pc)

\* the worker runs to its next ioRequest or to its end
RECURSIVE Run(_)
Run(s) == The({IF e.status # "ok" THEN e ELSE Run(Step(e)) : e \in {s}})

(***************************************************************************)
(* The worker threads                                                      *)
(***************************************************************************)
Workers == 1..Len(datasets)

\* Thread(target=worker.readDataset): the thread runs to its first ioRequest
Start(dataset) ==
    Run([NewDataset(dataset) EXCEPT !.stack = <<[fn |-> "readDataset", pc |-> 0, v |-> <<>>]>>])

\* a worker that the constructor has not created
NoDataset == [status |-> "new"]

\* what ioRequest(pos, size) returns when no other thread runs: the bytes of
\* the resource there are; with a driver that fails reads across the end of
\* the resource, the exception of the driver
IoAlone(pos, size) ==
    LET abs == pos + baseAddress
        line == CacheLineOf(abs)
        len == Len(Image(resource))
        across == IF size > CACHE_LINE_SIZE THEN abs + size > len
                  ELSE \/ line + CACHE_LINE_SIZE > len
                       \/ /\ abs - line + size > CACHE_LINE_SIZE
                          /\ line + 2 * CACHE_LINE_SIZE > len
    IN  IF across /\ driverMode = "error" THEN [ok |-> FALSE, data |-> <<>>]
        ELSE [ok |-> TRUE, data |-> PySlice(Image(resource), abs, abs + size)]

\* readDataset run alone, one ioRequest further than in s
RunAlone(s) ==
    IF s.status = "need" THEN Run(Resume(s, IoAlone(s.req[1], s.req[2]))) ELSE s

\* (mutant) the result of ioRequest is taken from whichever thread has one
ReturnedShared(w) ==
    LET u == CHOOSE t \in Workers : io[t].pc \in {"ret", "raised"}
    IN  [ok |-> io[u].pc = "ret", data |-> io[u].data]

\* raw = self.resourceObject.ioRequest(...): the result of the worker's own call
Returned(w) == [ok |-> io[w].pc = "ret", data |-> io[w].data]

\* (mutant) the threads are started while readSuperblock reads the root address
SpawnEarly == mpc \in {"root", "spawn"}

\* the constructor is past self.rootAddress = self.readSuperblock()
SpawnReady == mpc = "spawn"

\* worker = H5Dataset(self, dataset); Thread(target=worker.readDataset).start():
\* the thread runs up to its first ioRequest
StartWorker(w) ==
    /\ SpawnReady
    /\ w \in Workers
    /\ h5[w] = NoDataset
    /\ \A u \in 1..(w - 1) : h5[u] # NoDataset
    /\ \E s \in {Start(datasets[w])} :
           /\ h5' = [h5 EXCEPT ![w] = s]
           /\ io' = IF s.status = "need" THEN IoCall(w, s.req[1], s.req[2]) ELSE io
           /\ alone' = [alone EXCEPT ![w] = s]
    /\ mpc' = IF w = Len(datasets) /\ mpc = "spawn" THEN "done" ELSE mpc
    /\ UNCHANGED <<resource, driverMode, cache, lock, offsetSize, lengthSize, baseAddress,
                   rootAddress, sbVersion, lineReads, calls, prev, datasets>>

\* the worker's ioRequest has ended: readDataset runs on to the next
\* ioRequest, or to its end
WorkerStep(w) ==
    /\ w \in Workers
    /\ h5[w].status = "need"
    /\ io[w].pc \in {"ret", "raised"}
    /\ \E s \in {Run(Resume(h5[w], Returned(w)))} :
           /\ h5' = [h5 EXCEPT ![w] = s]
           /\ io' = IF s.status = "need" THEN IoCall(w, s.req[1], s.req[2])
                                         ELSE [io EXCEPT ![w] = IoIdle]
    /\ alone' = [alone EXCEPT ![w] = RunAlone(alone[w])]
    /\ UNCHANGED <<resource, driverMode, cache, lock, offsetSize, lengthSize, baseAddress,
                   rootAddress, mpc, sbVersion, lineReads, calls, prev, datasets>>

(***************************************************************************)
(* Outside callers of ioRequest on a constructed H5Coro                    *)
(***************************************************************************)
NoCall == [pos |-> NoValue, size |-> 0, data |-> <<>>]
CallPositions == {0, 13, Len(Image(resource)) - 2}
CallSizes == {2, 9, CACHE_LINE_SIZE + 1}

CallerCall(t, pos, size) ==
    /\ mpc = "done"
    /\ io[t].pc \in {"idle", "ret", "raised"}
    /\ calls < MaxCalls
    /\ calls' = calls + 1
    /\ prev' = [prev EXCEPT ![t] = IF io[t].pc = "ret"
                                   THEN [pos |-> io[t].pos, size |-> io[t].size,
                                         data |-> io[t].data]
                                   ELSE NoCall]
    /\ io' = IoCall(t, pos, size)
    /\ UNCHANGED <<resource, driverMode, cache, lock, offsetSize, lengthSize, baseAddress,
                   rootAddress, mpc, sbVersion, lineReads, datasets, h5, alone>>

InitObject ==
    /\ driverMode \in DriverModes
    /\ cache = <<>>
    /\ lock = NoThread
    /\ offsetSize = 0
    /\ lengthSize = 0
    /\ baseAddress = 0
    /\ rootAddress = NoValue
    /\ mpc = "new"
    /\ sbVersion = NoValue
    /\ io = [t \in Threads |-> IoIdle]
    /\ lineReads = <<>>
    /\ calls = 0
    /\ prev = [t \in Callers |-> NoCall]
    /\ h5 = [t \in Callers |-> NoDataset]
    /\ alone = [t \in Callers |-> NoDataset]

InitCoordinator == resource \in Resources /\ InitObject

InitIO == InitCoordinator /\ datasets = <<>>

NextIO ==
    \/ Constructor
    \/ \E t \in Threads : IoEnter(t) \/ IoRead1(t) \/ IoRead2(t) \/ IoDirect(t)
    \/ \E t \in Callers, pos \in CallPositions, size \in CallSizes : CallerCall(t, pos, size)

SpecIO == InitIO /\ [][NextIO]_vars

(***************************************************************************)
(* The program: H5Coro(resource, driver, datasets)                         *)
(***************************************************************************)
\* the dataset paths "d", "/d" and "x"
PathD == <<100>>
PathSlashD == <<47, 100>>
PathX == <<120>>
DatasetLists == {<<PathD>>, <<PathD, PathSlashD>>, <<PathD, PathX>>, <<PathX, PathD>>,
                 <<PathD, PathD>>}

Init == InitCoordinator /\ datasets \in DatasetLists

Next ==
    \/ Constructor
    \/ \E t \in Threads : IoEnter(t) \/ IoRead1(t) \/ IoRead2(t) \/ IoDirect(t)
    \/ \E w \in Threads \ {MainThread} : StartWorker(w) \/ WorkerStep(w)

Spec == Init /\ [][Next]_vars

\* the program with a worker for "x" and a worker for "d", where every
\* thread that can run is run in the end: the constructor and the worker
\* threads are scheduled by the operating system
InitFair == InitCoordinator /\ datasets \in {<<PathX, PathD>>, <<PathD, PathX>>}

SpecFair == InitFair /\ [][Next]_vars /\ WF_vars(Next)

\* the program with one worker, for "d", over files that hold one message
\* case each
WalkResources == {"classic", "links", "unknown", "soft", "filter", "v0", "heap", "last", "after"}
InitWalk == resource \in WalkResources /\ InitObject /\ datasets = <<PathD>>

SpecWalk == InitWalk /\ [][Next]_vars

\* the program with one worker, for the path "d/e" of two components
PathDE == <<100, 47, 101>>
InitPath == resource \in WalkResources /\ InitObject /\ datasets = <<PathDE>>

SpecPath == InitPath /\ [][Next]_vars

\* the program with one worker, for "d", where every thread that can run is
\* run in the end, over the classic file, the file with the long link name
\* and the file whose group B-tree node is its own child
LoopResources == {"classic", "links", "loop"}
InitLoop == resource \in LoopResources /\ InitObject /\ datasets = <<PathD>>

SpecLoop == InitLoop /\ [][Next]_vars /\ WF_vars(Next)

(***************************************************************************)
(* readDataset once the walk has returned: the object holds the metadata   *)
(* that the message handlers have stored, and the request                  *)
(***************************************************************************)
\* the dimensions of a dataset of rank nd
\* type, signedval and typeSize as datatypeMsgHandler leaves them: a string
\* type is stored as signed with size 1
DatatypesStored ==
    {dt \in {0, 1, 3} \X BOOLEAN \X {1, 4, 8} : dt[1] = 3 => dt[2] /\ dt[3] = 1}

DimensionLists(nd) ==
    IF nd = NoValue \/ nd = 0 THEN {<<>>}
    ELSE IF nd = 1 THEN {<<d0>> : d0 \in 0..2}
    ELSE {<<d0, d1>> : d0 \in 0..2, d1 \in 1..2}

\* an H5Dataset whose readObjHdr has returned
WalkedDatasets ==
    UNION {
      {[NewDataset(PathD) EXCEPT
            !.stack = <<[fn |-> "readDataset", pc |-> 1, v |-> <<>>]>>,
            !.datasetLevel = 1, !.pos = 204,
            !.datasetStartRow = req[1], !.datasetNumRows = req[2],
            !.typeSize = dt[3], !.type = dt[1], !.signedval = dt[2],
            !.ndims = nd, !.dimensions = dims,
            !.layout = lay, !.address = 338, !.addressBytes = LE(338, 8),
            !.size = 0, !.fillsize = fs,
            !.elementSize = dt[3], !.chunkElements = IF lay = CHUNKED_LAYOUT THEN 2 ELSE 0,
            !.chunkDimensions = IF lay = CHUNKED_LAYOUT THEN [i \in 1..Len(dims) |-> 1]
                                                        ELSE <<>>]
         : dims \in DimensionLists(nd)}
      : req \in (0..2) \X {ALL_ROWS, 1, 3},
        dt \in DatatypesStored,
        nd \in {NoValue, 0, 1, 2},
        lay \in {0, CONTIGUOUS_LAYOUT, CHUNKED_LAYOUT},
        fs \in {0, 4} }

\* a constructed H5Coro and one H5Dataset whose walk has returned; alone
\* keeps the object as it is when the walk returns
InitData ==
    /\ resource = "links"
    /\ driverMode = "short"
    /\ cache = <<>>
    /\ lock = NoThread
    /\ offsetSize = 8
    /\ lengthSize = 8
    /\ baseAddress = 16
    /\ rootAddress = 48
    /\ mpc = "done"
    /\ sbVersion = 2
    /\ io = [t \in Threads |-> IoIdle]
    /\ lineReads = <<>>
    /\ calls = 0
    /\ prev = [t \in Callers |-> NoCall]
    /\ datasets = <<PathD>>
    /\ \E s \in WalkedDatasets :
           /\ h5 = [t \in Callers |-> IF t = 1 THEN s ELSE NoDataset]
           /\ alone = [t \in Callers |-> IF t = 1 THEN s ELSE NoDataset]

\* the rest of readDataset
ReadData ==
    /\ h5[1].status = "ok"
    /\ h5' = [h5 EXCEPT ![1] = Run(h5[1])]
    /\ UNCHANGED <<resource, driverMode, cache, lock, offsetSize, lengthSize, baseAddress,
                   rootAddress, mpc, sbVersion, io, lineReads, calls, prev, datasets, alone>>

SpecData == InitData /\ [][ReadData]_vars

(***************************************************************************)
(* A message handler called on its own: the object is as readMessage finds *)
(* it at the body of a message of a file, and the handler is run to its    *)
(* return or to the exception that leaves it                               *)
(***************************************************************************)
\* the files (with their base addresses) and the positions of the bodies of
\* their link messages
LinkBodies ==
    {<<"links", 16, 72>>, <<"links", 16, 140>>, <<"links", 16, 176>>,
     <<"unknown", 0, 88>>, <<"soft", 0, 72>>, <<"filter", 0, 72>>, <<"heap", 0, 122>>}

\* the size in the prefix (version 1) of the message whose body is at pos
SizeInPrefix(r, base, pos) == Unpack(SubSeq(Image(r), base + pos - 5, base + pos - 4))

\* the object when readMessage calls handler fn for the message at pos
HandlerCall(dataset, fn, msg_size, pos) ==
    [NewDataset(dataset) EXCEPT
        !.stack = <<[fn |-> fn, pc |-> 0,
                     v |-> [msg_size |-> msg_size, obj_hdr_flags |-> CUSTOM_V1_FLAG]]>>,
        !.pos = pos]

InitLink ==
    /\ driverMode \in DriverModes
    /\ cache = <<>>
    /\ lock = NoThread
    /\ offsetSize = 8
    /\ lengthSize = 8
    /\ rootAddress = 48
    /\ mpc = "done"
    /\ sbVersion = 2
    /\ io = [t \in Threads |-> IoIdle]
    /\ lineReads = <<>>
    /\ calls = 0
    /\ prev = [t \in Callers |-> NoCall]
    /\ \E b \in LinkBodies, dataset \in {PathD, PathX} :
           /\ resource = b[1]
           /\ baseAddress = b[2]
           /\ datasets = <<dataset>>
           /\ \E s \in {HandlerCall(dataset, "linkMsgHandler",
                                     SizeInPrefix(b[1], b[2], b[3]), b[3])} :
                  /\ h5 = [t \in Callers |-> IF t = 1 THEN s ELSE NoDataset]
                  /\ alone = [t \in Callers |-> IF t = 1 THEN s ELSE NoDataset]

\* the handler runs to its next ioRequest, which is served from the file
HandlerStep ==
    /\ h5[1].status \in {"ok", "need"}
    /\ h5' = [h5 EXCEPT ![1] = IF h5[1].status = "ok" THEN Run(h5[1]) ELSE RunAlone(h5[1])]
    /\ UNCHANGED <<resource, driverMode, cache, lock, offsetSize, lengthSize, baseAddress,
                   rootAddress, mpc, sbVersion, io, lineReads, calls, prev, datasets, alone>>

SpecLink == InitLink /\ [][HandlerStep]_vars

(***************************************************************************)
(* readMessagesV1 called on its own: the object is as readObjHdrV1 finds   *)
(* it behind the prefix of a header of a file                              *)
(***************************************************************************)
\* the files (with their base addresses) and the positions of their
\* version 1 headers
HeadersV1 ==
    {<<"links", 16, 48>>, <<"links", 16, 204>>, <<"unknown", 0, 48>>, <<"unknown", 0, 104>>,
     <<"soft", 0, 48>>, <<"filter", 0, 48>>, <<"filter", 0, 100>>, <<"heap", 0, 48>>,
     <<"heap", 0, 150>>, <<"last", 0, 48>>, <<"last", 0, 108>>}

\* obj_hdr_size of the header at hdr: 8 bytes behind the 8 bytes of version,
\* number of messages and reference count
ObjHdrSize(r, base, hdr) == Unpack(SubSeq(Image(r), base + hdr + 9, base + hdr + 16))

\* the object when readObjHdrV1 calls readMessagesV1 for the header at hdr
MessagesCall(dataset, hdr, obj_hdr_size) ==
    [NewDataset(dataset) EXCEPT
        !.stack = <<[fn |-> "readMessagesV1", pc |-> 0,
                     v |-> [end_of_hdr |-> hdr + 16 + obj_hdr_size,
                            obj_hdr_flags |-> CUSTOM_V1_FLAG]]>>,
        !.pos = hdr + 16]

InitMessages ==
    /\ driverMode \in DriverModes
    /\ cache = <<>>
    /\ lock = NoThread
    /\ offsetSize = 8
    /\ lengthSize = 8
    /\ rootAddress = 48
    /\ mpc = "done"
    /\ sbVersion = 2
    /\ io = [t \in Threads |-> IoIdle]
    /\ lineReads = <<>>
    /\ calls = 0
    /\ prev = [t \in Callers |-> NoCall]
    /\ \E b \in HeadersV1, dataset \in {PathD, PathX} :
           /\ resource = b[1]
           /\ baseAddress = b[2]
           /\ datasets = <<dataset>>
           /\ \E s \in {MessagesCall(dataset, b[3], ObjHdrSize(b[1], b[2], b[3]))} :
                  /\ h5 = [t \in Callers |-> IF t = 1 THEN s ELSE NoDataset]
                  /\ alone = [t \in Callers |-> IF t = 1 THEN s ELSE NoDataset]

SpecMessages == InitMessages /\ [][HandlerStep]_vars

(***************************************************************************)
(* readBTreeV1 at an entry of a leaf node: the check of the keys against   *)
(* the rows that are asked for, and the place of the chunk in the buffer.  *)
(* The entry is given by its two keys; buffer is given by its length.      *)
(***************************************************************************)
\* if (data_key1 >= child_key1 and data_key1 < child_key2) or ...
Included(data_key1, data_key2, child_key1, child_key2) ==
    \/ data_key1 >= child_key1 /\ data_key1 < child_key2
    \/ data_key2 >= child_key1 /\ data_key2 < child_key2
    \/ child_key1 >= data_key1 /\ child_key1 <= data_key2
    \/ child_key2 > data_key1 /\ child_key2 < data_key2

\* the product of f[i] for i in lo..hi
RECURSIVE Product(_, _, _)
Product(f, lo, hi) == IF lo > hi THEN 1 ELSE f[lo] * Product(f, lo + 1, hi)

\* for i in range(self.ndims), from i on: slice_size is slice[i] times
\* typeSize times chunkDimensions[k] for k < i times dimensions[j] for j > i
RECURSIVE SliceSizes(_, _)
SliceSizes(e, i) ==
    IF i > e.ndims THEN 0
    ELSE e.slice[i] * e.typeSize * Product(e.chunkDimensions, 1, i - 1)
                                 * Product(e.dimensions, i + 1, e.ndims)
         + SliceSizes(e, i + 1)

\* the row-major position of the origin of the chunk, in bytes: the sum over
\* i of slice[i] * typeSize * dimensions[j] for all j > i
RECURSIVE RowMajor(_, _)
RowMajor(e, i) ==
    IF i > e.ndims THEN 0
    ELSE e.slice[i] * e.typeSize * Product(e.dimensions, i + 1, e.ndims) + RowMajor(e, i + 1)

\* (mutant) the chunk at the row-major position of its origin
ChunkOffsetRowMajor(e) == RowMajor(e, 1)

\* chunk_offset = 0, and chunk_offset += slice_size for every dimension
ChunkOffset(e) == SliceSizes(e, 1)

\* (mutant) the bytes of the chunk from chunk_index on, whatever the buffer holds
ChunkBytesOfChunk(e, buffer_index, chunk_index) == e.dataChunkBufferSize - chunk_index

\* chunk_bytes = self.dataChunkBufferSize - chunk_index, and
\* len(buffer) - buffer_index when that goes past the buffer
ChunkBytes(e, buffer_index, chunk_index) ==
    IF buffer_index + (e.dataChunkBufferSize - chunk_index) > e.buffer_len
    THEN e.buffer_len - buffer_index
    ELSE e.dataChunkBufferSize - chunk_index

\* the chunk of the entry is placed: the indexes, the number of bytes, and
\* whether bytes are copied or FatalError is raised
PlaceChunk(e) ==
    LET chunk_offset == ChunkOffset(e)
        buffer_index == IF chunk_offset > e.buffer_offset
                        THEN chunk_offset - e.buffer_offset ELSE 0
        chunk_index == IF e.buffer_offset > chunk_offset
                       THEN e.buffer_offset - chunk_offset ELSE 0
        chunk_bytes == ChunkBytes(e, buffer_index, chunk_index)
        out == [e EXCEPT !.status = "done", !.processed = TRUE,
                         !.chunk_offset = chunk_offset, !.buffer_index = buffer_index,
                         !.chunk_index = chunk_index]
    IN  IF chunk_offset > e.buffer_offset /\ buffer_index >= e.buffer_len
        THEN [out EXCEPT !.status = "fatal", !.err = "invalid location to read data"]
        ELSE IF e.buffer_offset > chunk_offset /\ chunk_index >= e.dataChunkBufferSize
        THEN [out EXCEPT !.status = "fatal", !.err = "invalid location to read chunk"]
        ELSE IF e.dataChunkBufferSize - chunk_index < 0
        THEN [out EXCEPT !.status = "fatal", !.err = "no bytes of chunk data to read"]
        ELSE [out EXCEPT !.chunk_bytes = chunk_bytes, !.copied = TRUE]

\* one pass of `for e in range(entries_used)` at a leaf
LeafEntry(e) ==
    IF Included(e.datasetStartRow, e.datasetStartRow + e.datasetNumRows - 1,
                e.slice[1], e.next_row_key)
    THEN PlaceChunk(e)
    ELSE [e EXCEPT !.status = "done"]

\* the entries and the reads they are met in: a dataset of one or two
\* dimensions in chunks, the rows asked for, the origin of the chunk (slice)
\* and the row of the next key, which is the same row when the next chunk
\* is the next one in the second dimension
LeafEntries ==
    UNION {
      { [status |-> "ok", err |-> "", processed |-> FALSE, copied |-> FALSE,
         chunk_offset |-> 0, buffer_index |-> 0, chunk_index |-> 0, chunk_bytes |-> 0,
         ndims |-> Len(dc[1]), dimensions |-> dc[1], chunkDimensions |-> dc[2],
         typeSize |-> ts, datasetStartRow |-> rows[1], datasetNumRows |-> rows[2],
         dataChunkBufferSize |-> Product(dc[2], 1, Len(dc[2])) * ts,
         buffer_len |-> ts * Product(dc[1], 2, Len(dc[1])) * rows[2],
         buffer_offset |-> ts * Product(dc[1], 2, Len(dc[1])) * rows[1],
         slice |-> org, next_row_key |-> org[1] + next]
        : org \in {o \in [1..Len(dc[1]) -> 0..3] :
                     \A i \in 1..Len(dc[1]) : o[i] % dc[2][i] = 0 /\ o[i] < dc[1][i]},
          next \in IF Len(dc[1]) = 1 THEN {dc[2][1]} ELSE {0, dc[2][1]},
          rows \in {r \in (0..3) \X (1..2) : r[1] + r[2] <= dc[1][1]} }
      : dc \in {d \in {<<4>>, <<2, 4>>, <<4, 2>>} \X {<<1>>, <<2>>, <<4>>, <<1, 2>>, <<2, 1>>, <<2, 2>>} :
                  Len(d[1]) = Len(d[2])},
        ts \in {1, 2} }

InitChunk ==
    /\ resource = "links"
    /\ driverMode = "short"
    /\ cache = <<>>
    /\ lock = NoThread
    /\ offsetSize = 8
    /\ lengthSize = 8
    /\ baseAddress = 16
    /\ rootAddress = 48
    /\ mpc = "done"
    /\ sbVersion = 2
    /\ io = [t \in Threads |-> IoIdle]
    /\ lineReads = <<>>
    /\ calls = 0
    /\ prev = [t \in Callers |-> NoCall]
    /\ datasets = <<PathD>>
    /\ \E e \in LeafEntries :
           /\ h5 = [t \in Callers |-> IF t = 1 THEN e ELSE NoDataset]
           /\ alone = [t \in Callers |-> IF t = 1 THEN e ELSE NoDataset]

ReadLeafEntry ==
    /\ h5[1].status = "ok"
    /\ h5' = [h5 EXCEPT ![1] = LeafEntry(h5[1])]
    /\ UNCHANGED <<resource, driverMode, cache, lock, offsetSize, lengthSize, baseAddress,
                   rootAddress, mpc, sbVersion, io, lineReads, calls, prev, datasets, alone>>

SpecChunk == InitChunk /\ [][ReadLeafEntry]_vars

(***************************************************************************)
(* readDataset behind readBTreeV1: the chunks of the buffer are placed in  *)
(* row order (flatten). The numbers of the step are Python numbers: a      *)
(* value n/d that is an int or a float; a / b is a float whatever a and b  *)
(* are, a product or a sum is a float as soon as one operand is, and a     *)
(* float is not an index of an array.                                      *)
(***************************************************************************)
FLAT_NDIMS == 3

PyInt(i) == [n |-> i, d |-> 1, float |-> FALSE]
\* a / b
PyTrueDiv(a, b) == [n |-> a.n * b.d, d |-> a.d * b.n, float |-> TRUE]
\* a * b
PyMul(a, b) == [n |-> a.n * b.n, d |-> a.d * b.d, float |-> a.float \/ b.float]
\* a + b
PyAdd(a, b) == [n |-> a.n * b.d + b.n * a.d, d |-> a.d * b.d, float |-> a.float \/ b.float]
\* a == b
PyEq(a, b) == a.n * b.d = b.n * a.d

\* the product of f[i] for i in lo..hi, as Python multiplies
RECURSIVE PyProduct(_, _, _)
PyProduct(f, lo, hi) == IF lo > hi THEN PyInt(1) ELSE PyMul(f[lo], PyProduct(f, lo + 1, hi))

\* for d in range(1, self.ndims): if self.chunkDimensions[d] != self.dimensions[d]
NeedFlatten(e) == \E d \in 2..e.ndims : e.chunkDimensions[d] # e.dimensions[d]

\* cdimnum: the number of chunks in each dimension, then the chunk
\* dimensions
Cdimnum(e) ==
    [i \in 1..(MAX_NDIMS * 2) |->
        IF i <= e.ndims THEN PyTrueDiv(PyInt(e.dimensions[i]), PyInt(e.chunkDimensions[i]))
        ELSE IF i <= 2 * e.ndims THEN PyInt(e.chunkDimensions[i - e.ndims])
        ELSE PyInt(0)]

\* cdimnum[i] * self.chunkDimensions[i] for i in range(1, self.ndims)
Columns(e) ==
    PyProduct([i \in 2..e.ndims |-> PyMul(Cdimnum(e)[i], PyInt(e.chunkDimensions[i]))],
              2, e.ndims)

\* cdimsizes: the bytes of a band of chunks, of a row of a chunk and of a
\* row of the dataset
Cdimsizes(e) ==
    <<PyMul(PyInt(e.chunkDimensions[1] * e.typeSize), Columns(e)),
      PyMul(PyInt(e.typeSize),
            PyProduct([i \in 2..e.ndims |-> PyInt(e.chunkDimensions[i])], 2, e.ndims)),
      PyMul(PyInt(e.typeSize), Columns(e))>>

\* start += dimi[i] * cdimsizes[i] for i in range(self.FLAT_NDIMS), from 0
StartOfRow(e) ==
    PyAdd(PyAdd(PyAdd(PyInt(0), PyMul(PyInt(e.dimi[1]), e.cdimsizes[1])),
                PyMul(PyInt(e.dimi[2]), e.cdimsizes[2])),
          PyMul(PyInt(e.dimi[3]), e.cdimsizes[3]))

\* for k in range(cdimsizes[1]): fbuf[start + k] = buffer[bi]; bi += 1, from
\* k on. The bytes of buffer are told apart by their index; IndexError is
\* raised for an index past buffer, for a float and for an index past fbuf
RECURSIVE CopyRow(_, _, _)
CopyRow(e, start, k) ==
    IF k >= e.cdimsizes[2].n THEN e
    ELSE IF e.bi >= e.buffer_size \/ start.float
            \/ start.n + k >= e.buffer_size \/ start.n + k < -e.buffer_size
    THEN [e EXCEPT !.status = "crash", !.err = "IndexError"]
    ELSE CopyRow([e EXCEPT !.fbuf[((start.n + k) % e.buffer_size) + 1] = e.bi,
                           !.written[((start.n + k) % e.buffer_size) + 1] = @ + 1,
                           !.bi = @ + 1],
                 start, k + 1)

\* while dimi[ci] == cdimnum[ci]: dimi[ci] = 0; ci -= 1; if ci < 0: break;
\* else: dimi[ci] += 1
RECURSIVE Carry(_)
Carry(e) ==
    IF ~PyEq(PyInt(e.dimi[e.ci + 1]), e.cdimnum[e.ci + 1]) THEN e
    ELSE IF e.ci - 1 < 0 THEN [e EXCEPT !.dimi[e.ci + 1] = 0, !.ci = e.ci - 1]
    ELSE Carry([e EXCEPT !.dimi[e.ci + 1] = 0, !.dimi[e.ci] = @ + 1, !.ci = e.ci - 1])

\* the flatten step begins: fbuf, bi, cdimnum, cdimsizes, ci, dimi
FlattenFirst(e) ==
    [e EXCEPT !.status = "loop",
              !.cdimnum = Cdimnum(e),
              !.cdimsizes = Cdimsizes(e),
              !.ci = FLAT_NDIMS - 1,
              !.dimi = [i \in 1..(MAX_NDIMS * 2) |-> 0],
              !.bi = 0]

\* one turn of the loop through each chunk: a row of a chunk is copied and
\* the indices are updated; at the end result['data'] = fbuf
FlattenNext(e) ==
    LET copied == CopyRow(e, StartOfRow(e), 0)
        carried == Carry([copied EXCEPT !.dimi[copied.ci + 1] = @ + 1])
    IN  IF copied.status = "crash" THEN copied
        ELSE IF carried.ci < 0 THEN [carried EXCEPT !.status = "done"]
        ELSE [carried EXCEPT !.ci = FLAT_NDIMS - 1]

\* the datasets of two dimensions that readDataset flattens: dimensions,
\* chunk dimensions within them that differ in the second dimension, the
\* size of the type, and the rows asked for; buffer holds the rows
\* asked for
FlattenCalls ==
    { [status |-> "ok", err |-> "", ndims |-> 2, dimensions |-> dc[1], chunkDimensions |-> dc[2],
       typeSize |-> ts, datasetStartRow |-> rows[1], datasetNumRows |-> rows[2],
       buffer_size |-> ts * dc[1][2] * rows[2],
       cdimnum |-> <<>>, cdimsizes |-> <<>>, ci |-> 0, dimi |-> <<>>, bi |-> 0,
       fbuf |-> [i \in 1..(ts * dc[1][2] * rows[2]) |-> -1],
       written |-> [i \in 1..(ts * dc[1][2] * rows[2]) |-> 0]]
      : dc \in {d \in ((1..3) \X (2..4)) \X ((1..3) \X (1..3)) :
                  d[2][1] <= d[1][1] /\ d[2][2] < d[1][2]},
        ts \in {1, 2},
        rows \in {r \in (0..2) \X (1..3) : TRUE} }

InitFlatten ==
    /\ resource = "links"
    /\ driverMode = "short"
    /\ cache = <<>>
    /\ lock = NoThread
    /\ offsetSize = 8
    /\ lengthSize = 8
    /\ baseAddress = 16
    /\ rootAddress = 48
    /\ mpc = "done"
    /\ sbVersion = 2
    /\ io = [t \in Threads |-> IoIdle]
    /\ lineReads = <<>>
    /\ calls = 0
    /\ prev = [t \in Callers |-> NoCall]
    /\ datasets = <<PathD>>
    /\ \E e \in {c \in FlattenCalls :
                    NeedFlatten(c) /\ c.datasetStartRow + c.datasetNumRows <= c.dimensions[1]} :
           /\ h5 = [t \in Callers |-> IF t = 1 THEN e ELSE NoDataset]
           /\ alone = [t \in Callers |-> IF t = 1 THEN e ELSE NoDataset]

FlattenBegin ==
    /\ h5[1].status = "ok"
    /\ h5' = [h5 EXCEPT ![1] = FlattenFirst(h5[1])]
    /\ UNCHANGED <<resource, driverMode, cache, lock, offsetSize, lengthSize, baseAddress,
                   rootAddress, mpc, sbVersion, io, lineReads, calls, prev, datasets, alone>>

FlattenChunk ==
    /\ h5[1].status = "loop"
    /\ h5' = [h5 EXCEPT ![1] = FlattenNext(h5[1])]
    /\ UNCHANGED <<resource, driverMode, cache, lock, offsetSize, lengthSize, baseAddress,
                   rootAddress, mpc, sbVersion, io, lineReads, calls, prev, datasets, alone>>

SpecFlatten == InitFlatten /\ [][FlattenBegin \/ FlattenChunk]_vars

(***************************************************************************)
(* Claims about ioRequest, checked under SpecIO                            *)
(***************************************************************************)
FileLen == Len(Image(resource))
\* the absolute position an activation of ioRequest asks for
AbsPos(r) == r.pos + baseAddress
\* the bytes of the resource in [a, a + n)
FileBytes(a, n) == PySlice(Image(resource), a, a + n)
\* the three ways ioRequest serves a request
Bypass(r) == r.size > CACHE_LINE_SIZE
Straddles(r) ==
    /\ ~Bypass(r)
    /\ (AbsPos(r) % CACHE_LINE_SIZE) + r.size > CACHE_LINE_SIZE
\* some driver read of the request crosses the end of the resource
CrossesEnd(r) ==
    IF Bypass(r) THEN AbsPos(r) + r.size > FileLen
    ELSE \/ CacheLineOf(AbsPos(r)) + CACHE_LINE_SIZE > FileLen
         \/ Straddles(r) /\ CacheLineOf(AbsPos(r)) + 2 * CACHE_LINE_SIZE > FileLen

SameAsPrevious(t) ==
    /\ io[t].pc = "ret"
    /\ prev[t].pos = io[t].pos
    /\ prev[t].size = io[t].size

\* C2 as claimed: the second of two successive ioRequest(o, n) with the same
\* arguments returns the same bytes and issues no driver read, for every n.
C2_IdempotentAllSizes ==
    \A t \in Callers :
        SameAsPrevious(t) => io[t].data = prev[t].data /\ io[t].nreads = 0

\* C2 amended: the second call returns the same bytes; it issues no driver
\* read when n <= CACHE_LINE_SIZE and exactly one when n > CACHE_LINE_SIZE.
C2_IdempotentCached ==
    \A t \in Callers :
        SameAsPrevious(t) =>
            /\ io[t].data = prev[t].data
            /\ io[t].nreads = IF Bypass(io[t]) THEN 1 ELSE 0

\* a repeated two-line request has returned without a driver read
C2_Witness ==
    \E t \in Callers :
        /\ SameAsPrevious(t)
        /\ Straddles(io[t])
        /\ io[t].nreads = 0
        /\ Len(io[t].data) = io[t].size

\* C3: every cache line is read from the driver at most once over the life
\* of the coordinator, whatever the order and interleaving of the requests
\* of at most CACHE_LINE_SIZE bytes (a driver read that fails reads nothing).
C3_LineReadOnce ==
    /\ DOMAIN lineReads = DOMAIN cache
    /\ \A k \in DOMAIN lineReads : lineReads[k] = 1

\* two callers were in ioRequest for the same line at once: one filled it
\* and has returned, the other found it and returned without a read
C3_Witness ==
    \E t, u \in Callers :
        /\ t # u
        /\ io[t].pc = "ret" /\ io[t].nreads = 1 /\ ~Bypass(io[t])
        /\ io[u].pc = "ret" /\ io[u].nreads = 0 /\ ~Bypass(io[u])
        /\ io[u].line = io[t].line
        /\ prev[t] = NoCall /\ prev[u] = NoCall
        /\ lineReads[io[t].line] = 1

CacheLinesSound ==
    \A k \in DOMAIN cache :
        /\ k % CACHE_LINE_SIZE = 0
        /\ cache[k] = FileBytes(k, CACHE_LINE_SIZE)
CacheLinesKept ==
    \A k \in DOMAIN cache : k \in DOMAIN cache' /\ cache'[k] = cache[k]

\* C4: the keys of the cache are multiples of CACHE_LINE_SIZE, every line
\* holds the driver's bytes at its key, and no step removes or changes a line.
C4_LinesImmutable == [](CacheLinesSound) /\ [][CacheLinesKept]_vars

\* the cache holds three lines, one of them filled as the next line of a
\* two-line request
C4_Witness ==
    /\ Cardinality(DOMAIN cache) >= 4
    /\ \E t \in Callers : io[t].pc = "ret" /\ Straddles(io[t]) /\ io[t].nreads = 2

\* C5 as claimed: ioRequest never returns fewer than size bytes and never
\* puts a short line into the cache (a partial driver read is fatal).
C5_PartialReadFatal ==
    /\ \A t \in Threads : io[t].pc = "ret" => Len(io[t].data) = io[t].size
    /\ \A k \in DOMAIN cache : Len(cache[k]) = CACHE_LINE_SIZE

(***************************************************************************)
(* Claims about the constructor and its workers, checked under Spec        *)
(***************************************************************************)
\* the superblock parameters
Params == <<offsetSize, lengthSize, baseAddress, rootAddress>>
\* the constructor has created worker w and started its thread
Started(w) == w \in Workers /\ h5[w] # NoDataset
\* the thread of worker w has ended by an exception
Failed(w) == Started(w) /\ h5[w].status \in {"fatal", "crash"}
\* the thread of worker w has ended
Ended(w) == Started(w) /\ h5[w].status \in {"fatal", "crash", "done"}

ParamsReady ==
    \A w \in Callers : h5[w] # NoDataset => mpc \in {"spawn", "done"} /\ rootAddress # NoValue
ParamsWrittenInConstructor ==
    Params' # Params => /\ Constructor
                        /\ \A w \in Callers : h5[w] = NoDataset /\ h5'[w] = NoDataset

\* C6: offsetSize, lengthSize, baseAddress and rootAddress are written only
\* by the steps of readSuperblock in the constructor; when the first worker
\* is started readSuperblock has returned the root address; no step taken
\* once a worker exists changes them.
C6_ParamsSetOnce == [](ParamsReady) /\ [][ParamsWrittenInConstructor]_vars

\* two workers have run to their ends on the file whose superblock gives a
\* base address other than 0
C6_Witness ==
    /\ baseAddress > 0 /\ offsetSize = 8 /\ rootAddress > 0
    /\ Len(datasets) = 2
    /\ \A w \in Workers : Ended(w)

\* the walk of worker w matched every component of its path and read a data
\* layout message of a known layout class
FoundWithLayout(w) ==
    /\ h5[w].datasetLevel = Len(h5[w].datasetPath)
    /\ h5[w].layout \in {0, CONTIGUOUS_LAYOUT, CHUNKED_LAYOUT}

\* C7 as claimed: a worker that has ended has either failed or set its
\* result, and a worker whose walk found the dataset and determined its
\* layout ends with its result set.
C7_FoundReachesResult ==
    \A w \in Callers :
        Ended(w) => /\ h5[w].status \in {"fatal", "crash"} \/ h5[w].status = "done"
                    /\ FoundWithLayout(w) => h5[w].status = "done"

\* C8: whatever the interleaving of the workers' steps and whichever thread
\* fills a cache line, a worker that has ended has ended exactly as its
\* dataset read alone on the same file ends: the same exception at the same
\* place with the same metadata.
C8_OutcomeAsAlone == \A w \in Callers : Ended(w) => h5[w] = alone[w]

\* of two workers for the same dataset the second has ended while the first,
\* started before it, is still on its way
C8_Witness ==
    /\ datasets = <<PathD, PathD>>
    /\ Ended(2) /\ h5[2].datasetLevel = 1
    /\ ~Ended(1) /\ h5[1].datasetLevel = 0

\* worker w fails in this step: its ioRequest raises, or its thread ends by
\* an exception
FailureStep(w) ==
    \/ w \in Workers /\ io[w].pc # "raised" /\ io'[w].pc = "raised"
    \/ ~Failed(w) /\ Failed(w)'
\* the step leaves the cache, the parameters and the other workers alone,
\* and w does not come out of it holding the lock
Unaffected(w) ==
    /\ cache' = cache
    /\ Params' = Params
    /\ lock' # w
    /\ \A u \in Callers \ {w} : h5'[u] = h5[u] /\ io'[u] = io[u]
SomeFailed == \E w \in Callers : Failed(w)
AllEnded == \A w \in Callers : w \in Workers => Ended(w)

\* C9: the step in which a worker fails changes neither the cache nor the
\* superblock parameters nor another worker's state or request, a failed
\* worker never holds the lock, and once a worker has failed every worker
\* of the constructor's list still runs to its end.
C9_FailureIsolated ==
    /\ [][\A w \in Callers : FailureStep(w) => Unaffected(w)]_vars
    /\ [](\A w \in Callers : Failed(w) => lock # w)
    /\ (SomeFailed ~> AllEnded)

\* the worker for "x" has failed on a driver read past the end of the file
\* while the worker for "d" goes on behind the link that comes after "x"
C9_Witness ==
    /\ datasets = <<PathX, PathD>>
    /\ lock = NoThread
    /\ Failed(1) /\ h5[1].err = "driver error"
    /\ h5[2] # NoDataset /\ h5[2].status = "need" /\ h5[2].datasetLevel = 1
    /\ h5[2].typeSize > 0

\* what readDataset has found out about the dataset
Outcome(s) ==
    [status |-> s.status, err |-> s.err, typeSize |-> s.typeSize, type |-> s.type,
     ndims |-> s.ndims, dimensions |-> s.dimensions, layout |-> s.layout,
     address |-> s.address, size |-> s.size]

\* C10 as claimed: the worker for '/' + p ends as the worker for p does,
\* with the same outcome and the same metadata.
C10_LeadingSlashIgnored ==
    \A v, w \in Callers :
        (/\ v \in Workers /\ w \in Workers
         /\ datasets[w] = <<47>> \o datasets[v]
         /\ Ended(v) /\ Ended(w))
            => Outcome(h5[w]) = Outcome(h5[v])

(***************************************************************************)
(* Claims about readDataset once the walk has returned, checked under      *)
(* SpecData: h5[1] is the object, alone[1] the object as the walk left it  *)
(***************************************************************************)
\* readDataset has ended
DataEnded == h5[1].status \in {"fatal", "crash", "done"}
\* readDataset has ended behind the test of the row range
PastRowRange ==
    /\ DataEnded
    /\ h5[1].err \notin {"missing data type information",
                         "missing data dimension information",
                         "invalid data address", "read exceeds number of rows"}
\* the number of rows of the dataset
NumberOfRows(s) == IF s.ndims = 0 THEN 1 ELSE s.dimensions[1]

ToEndRequest ==
    /\ alone[1].datasetNumRows = ALL_ROWS
    /\ alone[1].ndims # NoValue /\ alone[1].ndims > 0
    /\ alone[1].datasetStartRow <= alone[1].dimensions[1]

ChunkedRangeRequest ==
    /\ alone[1].layout = CHUNKED_LAYOUT
    /\ alone[1].ndims # NoValue /\ alone[1].ndims > 0
    /\ alone[1].datasetNumRows # ALL_ROWS
    /\ alone[1].datasetStartRow + alone[1].datasetNumRows <= alone[1].dimensions[1]
    /\ ToDatatype(alone[1])

UnknownMessage(s) ==
    /\ s.stack # <<>>
    /\ Top(s).fn = "readMessage"
    /\ V(s).msg_type \notin DOMAIN Handlers

\* C14 as claimed: a message whose type has no handler is skipped: the
\* thread of the worker does not end in readMessage for it.
C14_UnknownMessageSkipped ==
    \A w \in Callers : Started(w) /\ UnknownMessage(h5[w]) => ~Failed(w)

\* linkMsgHandler is reading the target of a soft or external link whose
\* name is the path component that is looked for
SoftLinkFollowed(s) ==
    /\ s.status = "need"
    /\ Top(s).fn = "linkMsgHandler"
    /\ Top(s).pc = 12
    /\ V(s).follow_link

\* C15 as claimed: the fatal error of linkMsgHandler for a soft or external
\* link named as the path component is not swallowed: the step that reads
\* the target of the link ends the thread of the worker by an exception.
C15_LinkErrorNotSwallowed ==
    [][\A w \in Callers :
          (Started(w) /\ SoftLinkFollowed(h5[w]) /\ h5'[w] # h5[w]) => Failed(w)']_vars

\* the filters that readBTreeV1 applies to a chunk
DEFLATE_FILTER == 1
SHUFFLE_FILTER == 2

DatatypeClaimed(s) ==
    \/ s.type = 0 /\ s.typeSize \in {1, 2, 4, 8}
    \/ s.type = 1 /\ s.typeSize \in {4, 8}
    \/ s.type = 3

RECURSIVE FramesV0(_, _, _, _)
FramesV0(img, p, end, obj_hdr_flags) ==
    IF p >= end \/ p + 3 > Len(img) THEN {p}
    ELSE {p} \cup FramesV0(img, p + (IF Bit(obj_hdr_flags, 4) THEN 6 ELSE 4)
                                    + Unpack(SubSeq(img, p + 2, p + 3)),
                            end, obj_hdr_flags)

\* readMessagesV0 is at the head of its loop or past it
AtMessageV0(s) ==
    /\ s.stack # <<>>
    /\ Top(s).fn = "readMessagesV0"
    /\ \/ s.status = "need" /\ Top(s).pc = 2
       \/ s.status = "fatal" /\ Top(s).pc = 7

\* C18 as claimed: in a header read by readMessagesV0 the cursor after a
\* message is the start of its body plus its size: the loop is always at
\* the start of a message or at the end of the last one.
C18_CursorAdvancedOnce ==
    \A w \in Callers :
        (Started(w) /\ AtMessageV0(h5[w]))
            => h5[w].pos \in FramesV0(Image(resource), V(h5[w]).starting_position,
                                      V(h5[w]).end_of_hdr, V(h5[w]).obj_hdr_flags)

(***************************************************************************)
(* Claims about the end of the search                                      *)
(***************************************************************************)
\* worker w looks for "d" in the classic file, whose symbol table node names
\* "d": the walk of the group meets the name of the path component
NamedInSymbolTable(w) == resource = "classic" /\ Started(w) /\ datasets[w] = PathD

\* no iteration over the messages of a header and no walk of a group node
\* is left on the stack
IterationsReturned(s) ==
    \A i \in 1..Len(s.stack) :
        s.stack[i].fn \notin {"readMessagesV0", "readMessagesV1", "symboltableMsgHandler",
                              "readSymbolTable"}

DataspaceSupported(s) ==
    /\ s.status = "need"
    /\ Top(s).fn = "dataspaceMsgHandler"
    /\ Top(s).pc = 3
    /\ V(s).version \in {1, 2}
    /\ V(s).dimensionality <= MAX_NDIMS
    /\ s.req[1] < Len(Image(resource))
    /\ ~Bit(Image(resource)[s.req[1] + 1], 2)

\* C20 as claimed: a dataspace message of version 1 or 2 without the
\* permutation flag and of rank at most 2 is accepted: the step that reads
\* its flags sets ndims to the rank, unless the read itself fails.
C20_DataspaceAccepted ==
    [][\A w \in Callers :
          (Started(w) /\ DataspaceSupported(h5[w]) /\ h5'[w] # h5[w] /\ ~Failed(w)')
              => h5'[w].ndims = Min(V(h5[w]).dimensionality, MAX_NDIMS)]_vars

(***************************************************************************)
(* Claims about the fractal heap of a group or of the attributes           *)
(***************************************************************************)
\* linkinfoMsgHandler or attributeinfoMsgHandler has read the heap address
\* and is reading the last field before it decides to follow it
InfoRead(s) ==
    /\ s.status = "need"
    /\ Top(s).fn \in {"linkinfoMsgHandler", "attributeinfoMsgHandler"}
    /\ \/ Top(s).pc = 5 /\ ~Bit(V(s).flags, 2)
       \/ Top(s).pc = 6

\* readFractalHeap is running
InFractalHeap(s) == \E i \in 1..Len(s.stack) : s.stack[i].fn = "readFractalHeap"

\* C21 as claimed: the link info and attribute info handlers read the
\* fractal heap exactly when the heap address is not INVALID_VALUE: the step
\* that ends the fields of the message enters readFractalHeap for an address
\* that is not all ones and does not enter it for one that is.
C21_HeapFollowedIffAddress ==
    [][\A w \in Callers :
          (Started(w) /\ InfoRead(h5[w]) /\ h5'[w] # h5[w] /\ h5'[w].status # "crash")
              => (InFractalHeap(h5'[w]) <=> ~IsInvalidValue(V(h5[w]).heap_address))]_vars

(***************************************************************************)
(* Claims about linkMsgHandler, checked under SpecLink                     *)
(***************************************************************************)
\* the byte of the file at position p of the object
FileByte(p) == Image(resource)[baseAddress + p + 1]

\* the link message at body has no link type field or the type HARD_LINK
HardLinkAt(body) == ~Bit(FileByte(body + 1), 8) \/ FileByte(body + 2) = 0

\* the position behind the object header address of the hard link message
\* at body: version, flags, the optional link type, creation order and
\* character set, the length of the name, the name and the address
AfterLinkAddress(body) ==
    LET flags == FileByte(body + 1)
        name_len_at == body + 2 + (IF Bit(flags, 8) THEN 1 ELSE 0)
                            + (IF Bit(flags, 4) THEN 8 ELSE 0)
                            + (IF Bit(flags, 16) THEN 1 ELSE 0)
        len_of_len == 2 ^ (flags % 4)
        name_len == Unpack(SubSeq(Image(resource), baseAddress + name_len_at + 1,
                                  baseAddress + name_len_at + len_of_len))
    IN  name_len_at + len_of_len + name_len + offsetSize

\* linkMsgHandler, called for a hard link message, has returned
LinkReturned ==
    /\ h5[1].status = "done"
    /\ alone[1].stack[1].fn = "linkMsgHandler"
    /\ HardLinkAt(alone[1].pos)

\* C22: when linkMsgHandler returns for a hard link, followed or not, the
\* cursor is right behind the object header address of the message and the
\* value returned is the cursor minus the start of the message body.
C22_LinkLeavesCursor ==
    LinkReturned => /\ h5[1].pos = AfterLinkAddress(alone[1].pos)
                    /\ h5[1].ret = h5[1].pos - alone[1].pos

\* the handler has returned from a link that it followed into the header of
\* the target
C22_Witness == LinkReturned /\ h5[1].datasetLevel = 1

(***************************************************************************)
(* Claims about the chunks of a leaf, checked under SpecChunk              *)
(***************************************************************************)
\* the entry has been handled
EntryEnded == h5[1].status \in {"done", "fatal"}

\* some row of [data_key1, data_key2] lies in [child_key1, child_key2)
Intersects(data_key1, data_key2, child_key1, child_key2) ==
    \E r \in data_key1..data_key2 : child_key1 <= r /\ r < child_key2

\* the rows asked for
DataKey1 == h5[1].datasetStartRow
DataKey2 == h5[1].datasetStartRow + h5[1].datasetNumRows - 1

MessagesCalled == h5[1].status = "ok"

\* the bytes from the cursor to end_of_hdr
BytesLeft == V(h5[1]).end_of_hdr - h5[1].pos

\* readMessagesV1 reads the prefix of a message
AtMessageV1(s) ==
    /\ s.status = "need"
    /\ Len(s.stack) = 1
    /\ Top(s).pc = 2

\* readMessagesV1 has returned
MessagesReturned == h5[1].status = "done"

\* C26 as claimed: readMessagesV1 reads a message whenever 8 bytes or more
\* are left before end_of_hdr and stops only with fewer than 8, and when it
\* returns the cursor is end_of_hdr.
C26_MessageWhilePrefixLeft ==
    /\ [][MessagesCalled => (AtMessageV1(h5'[1]) <=> BytesLeft >= SIZE_OF_V1_PREFIX)]_vars
    /\ [](MessagesReturned => h5[1].pos = V(alone[1]).end_of_hdr)

\* C26 as the code has it: readMessagesV1 reads a message whenever more
\* than 8 bytes are left before end_of_hdr and stops with 8 bytes or fewer
\* (a message without a body in the last 8 bytes of a header is not read);
\* when it returns the cursor is end_of_hdr.
C26_MessageWhileMoreLeft ==
    /\ [][MessagesCalled => (AtMessageV1(h5'[1]) <=> BytesLeft > SIZE_OF_V1_PREFIX)]_vars
    /\ [](AtMessageV1(h5[1]) => h5[1].req[1] + SIZE_OF_V1_PREFIX < V(h5[1]).end_of_hdr)
    /\ [](MessagesReturned => h5[1].pos = V(alone[1]).end_of_hdr)

\* readMessagesV1 has read a message and has returned
C26_Witness ==
    /\ MessagesReturned
    /\ V(alone[1]).end_of_hdr - alone[1].pos > SIZE_OF_V1_PREFIX

(***************************************************************************)
(* Claims about the flatten step, checked under SpecFlatten                *)
(***************************************************************************)
\* the flatten step has ended
FlattenEnded == h5[1].status \in {"done", "crash"}

\* where the byte of position p of the flattened buffer lies in buffer:
\* the chunks of a band one behind the other, each with its rows
BelongsAt(e, p) ==
    LET row_size == e.typeSize * e.dimensions[2]
        chunk_row == e.typeSize * e.chunkDimensions[2]
        row == p \div row_size
        col == p % row_size
    IN  (row \div e.chunkDimensions[1]) * (e.chunkDimensions[1] * row_size)
        + (col \div chunk_row) * (e.chunkDimensions[1] * chunk_row)
        + (row % e.chunkDimensions[1]) * chunk_row
        + (col % chunk_row)

C28_WorkersTerminate == <>(\A w \in Workers : Ended(w))

(***************************************************************************)
(* Claims about datasetFound, checked under SpecPath                       *)
(***************************************************************************)
\* C29: datasetFound is true only when every component of the path has
\* been matched: a worker that has matched the first components only has
\* not found the dataset.
C29_FoundOnlyWithWholePath ==
    \A w \in Callers :
        (Started(w) /\ h5[w].datasetFound)
            => h5[w].datasetLevel = Len(h5[w].datasetPath)

\* a worker has ended after it has matched "d" of "d/e" and no "e"
C29_Witness ==
    \E w \in Callers :
        /\ Ended(w)
        /\ h5[w].datasetLevel = 1
        /\ Len(h5[w].datasetPath) = 2
        /\ ~h5[w].datasetFound

(***************************************************************************)
(* Claims about datasetLevel, checked under SpecWalk                       *)
(***************************************************************************)
\* C30: datasetLevel stays between 0 and the number of components of the
\* path, and no name is compared against a component that the path does
\* not have: no worker ends by IndexError on datasetPath[datasetLevel].
C30_LevelWithinPath ==
    \A w \in Callers :
        Started(w) =>
            /\ 0 <= h5[w].datasetLevel
            /\ h5[w].datasetLevel <= Len(h5[w].datasetPath)
            /\ ~(h5[w].status = "crash" /\ h5[w].err = "IndexError")

====
